---------------------------- MODULE Spec2Model ----------------------------
(***************************************************************************)
(* A model of the QR menu carbon calculator (src/generate_qr_menu.py):     *)
(* CarbonCalculator.estimate_carbon_footprint, alone and called             *)
(* concurrently, the QRMenuSystem operations that build and summarise a     *)
(* menu, and the console program main(); and of the Streamlit dashboard     *)
(* (src/restaurant_system.py): its session state and the runs of its main() *)
(* that the user's clicks trigger.                                          *)
(*                                                                          *)
(* Text.  A Python str is a sequence of one-character strings; the dotless  *)
(* Turkish i (U+0131) is written "i_dotless".                               *)
(*                                                                          *)
(* Numbers.  Every amount of carbon the estimator adds is a product of a    *)
(* factor with one decimal and a mass with two decimals, or of a factor     *)
(* with one decimal and a whole number of minutes over 60.  All of them are *)
(* whole multiples of 1/3000 kg, so an unrounded total is an integer number *)
(* of these units (2.0 kg = 6000).  A total rounded to two decimals is an   *)
(* integer number of hundredths (2.0 kg = 200).  Python performs the        *)
(* arithmetic in binary floating point: round(x, 2) of a total that is an   *)
(* exact decimal tie (x.xx5) goes up or down according to the               *)
(* representation error of the sum, which this model does not compute; the  *)
(* direction is a fixed but unknown function tie_up of the total, chosen    *)
(* once in the initial state.                                               *)
(***************************************************************************)
EXTENDS Integers, Sequences, FiniteSets, TLC

VARIABLES
    tie_up,       \* direction of round() on each exact decimal tie
    calculator,   \* the CarbonCalculator object: its two factor tables
    threads,      \* the estimate_carbon_footprint calls running concurrently
    main,         \* position and locals of main(), NotRunning without it
    calls,        \* log of the estimator calls seen by a client that keeps one
    dish_name,    \* argument of the estimate_carbon_footprint call
    carbon_data,  \* the dict the call returned, NoCall before it returns
    frame,        \* the call's locals after each block of its body
    menu_items,   \* QRMenuSystem.menu_items
    last,         \* outcome of the last QRMenuSystem operation
    session_state,\* st.session_state of the dashboard: the keys set so far
    run           \* the dashboard's last script run and its widgets

vars == <<tie_up, calculator, threads, main, calls, dish_name, carbon_data,
          frame, menu_items, last, session_state, run>>

(***************************************************************************)
(* Bounds                                                                  *)
(***************************************************************************)
MaxWords == 2     \* words of a generated dish name
MaxItems == 4     \* items added to a menu

(***************************************************************************)
(* str.lower, substring test, any(kw in s for kw in [...])                  *)
(***************************************************************************)
ascii_lower ==
    [A |-> "a", B |-> "b", C |-> "c", D |-> "d", E |-> "e", F |-> "f",
     G |-> "g", H |-> "h", I |-> "i", J |-> "j", K |-> "k", L |-> "l",
     M |-> "m", N |-> "n", O |-> "o", P |-> "p", Q |-> "q", R |-> "r",
     S |-> "s", T |-> "t", U |-> "u", V |-> "v", W |-> "w", X |-> "x",
     Y |-> "y", Z |-> "z"]

\* s.lower(): every cased character is replaced by its lowercase form; the
\* characters of the inputs below are ASCII letters, the space and the
\* dotless i, which is lowercase already (and "I" lowers to "i", not to it).
lower(s) ==
    [i \in 1..Len(s) |->
        IF s[i] \in DOMAIN ascii_lower THEN ascii_lower[s[i]] ELSE s[i]]

\* kw in s
contains(s, kw) ==
    \E i \in 0..(Len(s) - Len(kw)) :
        /\ s[i + 1] = kw[1]
        /\ SubSeq(s, i + 1, i + Len(kw)) = kw

\* any(kw in s for kw in kws)
any_in(s, kws) == \E j \in 1..Len(kws) : contains(s, kws[j])

(***************************************************************************)
(* Arithmetic in units of 1/3000 kg                                         *)
(***************************************************************************)
\* factor * mass, factor in tenths of kg CO2 per kg, mass in hundredths of kg
times_mass(factor10, mass100) == factor10 * mass100 * 3

\* factor * (minutes / 60), factor in tenths of kg CO2 per hour
times_minutes(factor10, minutes) == factor10 * minutes * 5

IsTie(x) == x % 30 = 15

\* Mutant of round2: the total truncated to 2 decimals
round2_truncated(x) == x \div 30

\* round(x, 2), in hundredths
round2(x) ==
    LET q == x \div 30
        r == x % 30
    IN  IF r > 15 \/ (r = 15 /\ tie_up[x]) THEN q + 1 ELSE q

(***************************************************************************)
(* CarbonCalculator.__init__: the two factor tables, in tenths              *)
(***************************************************************************)
carbon_factors ==
    [beef |-> 270, lamb |-> 392, pork |-> 121,
     chicken |-> 69, fish |-> 61, salmon |-> 61,
     cheese |-> 135, milk |-> 32, butter |-> 238, eggs |-> 48,
     rice |-> 27, pasta |-> 9, bread |-> 9,
     vegetables |-> 20, tomatoes |-> 21, potatoes |-> 5,
     fruits |-> 11, olive_oil |-> 60, nuts |-> 23,
     beans |-> 20, quinoa |-> 15]

cooking_factors ==
    [oven |-> 21, stovetop |-> 18, grill |-> 35,
     deep_fry |-> 42, microwave |-> 6, steam |-> 10,
     raw |-> 0]

(***************************************************************************)
(* CarbonCalculator.estimate_carbon_footprint, block by block.  Each block  *)
(* maps the locals (ingredients, total_carbon, cooking_methods,             *)
(* cooking_carbon) before it to the locals after it.                        *)
(***************************************************************************)
\* The attributes of a CarbonCalculator after __init__
CarbonCalculator ==
    [carbon_factors |-> carbon_factors, cooking_factors |-> cooking_factors]

\* Mutant of locals0: the ingredients list outlives the call
locals0_ingredients_kept ==
    [ingredients |-> IF frame = <<>> THEN <<>> ELSE frame[6].ingredients,
     total_carbon |-> 0,
     cooking_methods |-> <<>>, cooking_carbon |-> 0]

locals0 ==
    [ingredients |-> <<>>, total_carbon |-> 0,
     cooking_methods |-> <<>>, cooking_carbon |-> 0]

add_ingredient(loc, tag, carbon) ==
    [loc EXCEPT !.ingredients = Append(@, tag),
                !.total_carbon = @ + carbon]

\* Mutant of protein_block: the chicken group is tested before the beef group
protein_block_chicken_first(dish_lower, loc) ==
    IF any_in(dish_lower, << <<"c","h","i","c","k","e","n">>,
                             <<"t","a","v","u","k">> >>)
    THEN add_ingredient(loc, "chicken", times_mass(69, 20))
    ELSE IF any_in(dish_lower, << <<"b","e","e","f">>,
                                  <<"s","t","e","a","k">>,
                                  <<"h","a","m","b","u","r","g","e","r">> >>)
    THEN add_ingredient(loc, "beef", times_mass(270, 25))
    ELSE IF any_in(dish_lower, << <<"f","i","s","h">>,
                                  <<"s","a","l","m","o","n">>,
                                  <<"b","a","l","i_dotless","k">> >>)
    THEN add_ingredient(loc, "fish", times_mass(61, 18))
    ELSE IF any_in(dish_lower, << <<"p","o","r","k">>,
                                  <<"b","a","c","o","n">>,
                                  <<"h","a","m">> >>)
    THEN add_ingredient(loc, "pork", times_mass(121, 20))
    ELSE IF any_in(dish_lower, << <<"l","a","m","b">>,
                                  <<"k","u","z","u">> >>)
    THEN add_ingredient(loc, "lamb", times_mass(392, 20))
    ELSE loc

\* Protein detection
protein_block(dish_lower, loc) ==
    IF any_in(dish_lower, << <<"b","e","e","f">>,
                             <<"s","t","e","a","k">>,
                             <<"h","a","m","b","u","r","g","e","r">> >>)
    THEN add_ingredient(loc, "beef", times_mass(270, 25))
    ELSE IF any_in(dish_lower, << <<"c","h","i","c","k","e","n">>,
                                  <<"t","a","v","u","k">> >>)
    THEN add_ingredient(loc, "chicken", times_mass(69, 20))
    ELSE IF any_in(dish_lower, << <<"f","i","s","h">>,
                                  <<"s","a","l","m","o","n">>,
                                  <<"b","a","l","i_dotless","k">> >>)
    THEN add_ingredient(loc, "fish", times_mass(61, 18))
    ELSE IF any_in(dish_lower, << <<"p","o","r","k">>,
                                  <<"b","a","c","o","n">>,
                                  <<"h","a","m">> >>)
    THEN add_ingredient(loc, "pork", times_mass(121, 20))
    ELSE IF any_in(dish_lower, << <<"l","a","m","b">>,
                                  <<"k","u","z","u">> >>)
    THEN add_ingredient(loc, "lamb", times_mass(392, 20))
    ELSE loc

\* Mutant of carbs_block: the carbohydrate tests continue the protein elif
\* chain, so they are skipped once a protein matched
carbs_block_after_protein(dish_lower, loc) ==
    IF loc.ingredients # <<>> THEN loc
    ELSE IF any_in(dish_lower, << <<"p","a","s","t","a">>,
                             <<"s","p","a","g","h","e","t","t","i">>,
                             <<"m","a","k","a","r","n","a">> >>)
    THEN add_ingredient(loc, "pasta", times_mass(9, 10))
    ELSE IF any_in(dish_lower, << <<"r","i","c","e">>,
                                  <<"p","i","l","a","v">>,
                                  <<"r","i","s","o","t","t","o">> >>)
    THEN add_ingredient(loc, "rice", times_mass(27, 10))
    ELSE IF any_in(dish_lower, << <<"s","a","n","d","w","i","c","h">>,
                                  <<"b","u","r","g","e","r">>,
                                  <<"b","r","e","a","d">> >>)
    THEN add_ingredient(loc, "bread", times_mass(9, 8))
    ELSE IF any_in(dish_lower, << <<"q","u","i","n","o","a">> >>)
    THEN add_ingredient(loc, "quinoa", times_mass(15, 10))
    ELSE loc

\* Carbs detection
carbs_block(dish_lower, loc) ==
    IF any_in(dish_lower, << <<"p","a","s","t","a">>,
                             <<"s","p","a","g","h","e","t","t","i">>,
                             <<"m","a","k","a","r","n","a">> >>)
    THEN add_ingredient(loc, "pasta", times_mass(9, 10))
    ELSE IF any_in(dish_lower, << <<"r","i","c","e">>,
                                  <<"p","i","l","a","v">>,
                                  <<"r","i","s","o","t","t","o">> >>)
    THEN add_ingredient(loc, "rice", times_mass(27, 10))
    ELSE IF any_in(dish_lower, << <<"s","a","n","d","w","i","c","h">>,
                                  <<"b","u","r","g","e","r">>,
                                  <<"b","r","e","a","d">> >>)
    THEN add_ingredient(loc, "bread", times_mass(9, 8))
    ELSE IF any_in(dish_lower, << <<"q","u","i","n","o","a">> >>)
    THEN add_ingredient(loc, "quinoa", times_mass(15, 10))
    ELSE loc

\* Mutant of vegetables_block: nothing is added without a salad keyword
vegetables_block_salad_only(dish_lower, loc) ==
    IF any_in(dish_lower, << <<"s","a","l","a","d">>,
                             <<"s","a","l","a","t","a">>,
                             <<"v","e","g","e","t","a","b","l","e","s">> >>)
    THEN add_ingredient(loc, "vegetables", times_mass(20, 20))
    ELSE loc

\* Vegetables (always add some)
vegetables_block(dish_lower, loc) ==
    IF any_in(dish_lower, << <<"s","a","l","a","d">>,
                             <<"s","a","l","a","t","a">>,
                             <<"v","e","g","e","t","a","b","l","e","s">> >>)
    THEN add_ingredient(loc, "vegetables", times_mass(20, 20))
    ELSE add_ingredient(loc, "vegetables", times_mass(20, 10))

\* Mutant of dairy_block: "cheese" is inserted at the front of ingredients
dairy_block_cheese_first(dish_lower, loc) ==
    IF any_in(dish_lower, << <<"c","h","e","e","s","e">>,
                             <<"p","e","y","n","i","r">>,
                             <<"p","a","r","m","e","s","a","n">> >>)
    THEN [loc EXCEPT !.ingredients = <<"cheese">> \o @,
                     !.total_carbon = @ + times_mass(135, 5)]
    ELSE loc

\* Mutant of dairy_block: 0.5 kg of cheese instead of 0.05
dairy_block_half_kilo(dish_lower, loc) ==
    IF any_in(dish_lower, << <<"c","h","e","e","s","e">>,
                             <<"p","e","y","n","i","r">>,
                             <<"p","a","r","m","e","s","a","n">> >>)
    THEN add_ingredient(loc, "cheese", times_mass(135, 50))
    ELSE loc

\* Dairy
dairy_block(dish_lower, loc) ==
    IF any_in(dish_lower, << <<"c","h","e","e","s","e">>,
                             <<"p","e","y","n","i","r">>,
                             <<"p","a","r","m","e","s","a","n">> >>)
    THEN add_ingredient(loc, "cheese", times_mass(135, 5))
    ELSE loc

set_cooking(loc, method, carbon) ==
    [loc EXCEPT !.cooking_methods = Append(@, method),
                !.cooking_carbon = carbon]

\* Mutant of cooking_block: frying takes the default cooking_time
cooking_block_fry_default_time(dish_lower, loc) ==
    LET cooking_time == 20
    IN  IF any_in(dish_lower, << <<"g","r","i","l","l","e","d">>,
                                 <<"i_dotless","z","g","a","r","a">>,
                                 <<"g","r","i","l","l">> >>)
        THEN set_cooking(loc, "grill", times_minutes(35, cooking_time))
        ELSE IF any_in(dish_lower, << <<"f","r","i","e","d">>,
                                      <<"k","i_dotless","z","a","r","t","m","a">> >>)
        THEN set_cooking(loc, "deep_fry", times_minutes(42, cooking_time))
        ELSE IF any_in(dish_lower, << <<"b","a","k","e","d">>,
                                      <<"r","o","a","s","t","e","d">>,
                                      <<"f","i_dotless","r","i_dotless","n">> >>)
        THEN set_cooking(loc, "oven", times_minutes(21, 30))
        ELSE IF any_in(dish_lower, << <<"s","a","l","a","d">>,
                                      <<"f","r","e","s","h">>,
                                      <<"r","a","w">> >>)
        THEN set_cooking(loc, "raw", 0)
        ELSE set_cooking(loc, "stovetop", times_minutes(18, cooking_time))

\* Mutant of cooking_block: "salad" is not a raw keyword
cooking_block_salad_not_raw(dish_lower, loc) ==
    LET cooking_time == 20
    IN  IF any_in(dish_lower, << <<"g","r","i","l","l","e","d">>,
                                 <<"i_dotless","z","g","a","r","a">>,
                                 <<"g","r","i","l","l">> >>)
        THEN set_cooking(loc, "grill", times_minutes(35, cooking_time))
        ELSE IF any_in(dish_lower, << <<"f","r","i","e","d">>,
                                      <<"k","i_dotless","z","a","r","t","m","a">> >>)
        THEN set_cooking(loc, "deep_fry", times_minutes(42, 15))
        ELSE IF any_in(dish_lower, << <<"b","a","k","e","d">>,
                                      <<"r","o","a","s","t","e","d">>,
                                      <<"f","i_dotless","r","i_dotless","n">> >>)
        THEN set_cooking(loc, "oven", times_minutes(21, 30))
        ELSE IF any_in(dish_lower, << <<"f","r","e","s","h">>,
                                      <<"r","a","w">> >>)
        THEN set_cooking(loc, "raw", 0)
        ELSE set_cooking(loc, "stovetop", times_minutes(18, cooking_time))

\* Cooking method detection; cooking_time = 20 is the default minutes
cooking_block(dish_lower, loc) ==
    LET cooking_time == 20
    IN  IF any_in(dish_lower, << <<"g","r","i","l","l","e","d">>,
                                 <<"i_dotless","z","g","a","r","a">>,
                                 <<"g","r","i","l","l">> >>)
        THEN set_cooking(loc, "grill", times_minutes(35, cooking_time))
        ELSE IF any_in(dish_lower, << <<"f","r","i","e","d">>,
                                      <<"k","i_dotless","z","a","r","t","m","a">> >>)
        THEN set_cooking(loc, "deep_fry", times_minutes(42, 15))
        ELSE IF any_in(dish_lower, << <<"b","a","k","e","d">>,
                                      <<"r","o","a","s","t","e","d">>,
                                      <<"f","i_dotless","r","i_dotless","n">> >>)
        THEN set_cooking(loc, "oven", times_minutes(21, 30))
        ELSE IF any_in(dish_lower, << <<"s","a","l","a","d">>,
                                      <<"f","r","e","s","h">>,
                                      <<"r","a","w">> >>)
        THEN set_cooking(loc, "raw", 0)
        ELSE set_cooking(loc, "stovetop", times_minutes(18, cooking_time))

\* Mutant of add_cooking: cooking_carbon is never added to the total
add_cooking_forgotten(loc) == loc

\* total_carbon += cooking_carbon
add_cooking(loc) == [loc EXCEPT !.total_carbon = @ + loc.cooking_carbon]

\* The locals after each block, in order: protein, carbs, vegetables, dairy,
\* cooking method, and the final addition of cooking_carbon.
estimate_locals(name) ==
    LET dish_lower == lower(name)
        l1 == protein_block(dish_lower, locals0)
        l2 == carbs_block(dish_lower, l1)
        l3 == vegetables_block(dish_lower, l2)
        l4 == dairy_block(dish_lower, l3)
        l5 == cooking_block(dish_lower, l4)
        l6 == add_cooking(l5)
    IN  <<l1, l2, l3, l4, l5, l6>>

\* The returned dict, given the locals at the return statement
result_dict(loc) ==
    [ingredients |-> loc.ingredients,
     cooking_methods |-> loc.cooking_methods,
     total_carbon |-> round2(loc.total_carbon),
     is_eco_friendly |-> loc.total_carbon < 6000]

estimate_carbon_footprint(name) == result_dict(estimate_locals(name)[6])

\* The unrounded total of a name, and the exact decimal ties among the
\* totals of a set of names
unrounded_total(name) == estimate_locals(name)[6].total_carbon

tie_totals(names) ==
    {x \in {unrounded_total(n) : n \in names} : IsTie(x)}

(***************************************************************************)
(* Inputs: dish names                                                       *)
(***************************************************************************)
Words ==
    { <<"B","e","e","f">>,
      <<"C","h","i","c","k","e","n">>,
      <<"S","a","l","m","o","n">>,
      <<"B","a","c","o","n">>,
      <<"L","a","m","b">>,
      <<"P","a","s","t","a">>,
      <<"R","i","c","e">>,
      <<"S","a","n","d","w","i","c","h">>,
      <<"Q","u","i","n","o","a">>,
      <<"S","a","l","a","d">>,
      <<"S","a","l","a","t","a">>,
      <<"C","h","e","e","s","e">>,
      <<"G","r","i","l","l","e","d">>,
      <<"F","r","i","e","d">>,
      <<"B","a","k","e","d">>,
      <<"F","r","e","s","h">>,
      <<"B","o","w","l">> }

\* Names whose keywords overlap, sit inside a longer word or differ in case:
\* "Hamburger" (holds "ham" and "burger"), "Cheeseburger", "STEAK", "Prawn"
\* (holds "raw"), "IZGARA" (lowers to "izgara"), the dotless "izgara",
\* "Fried Cheese Sandwich", "Baked Lamb Quinoa Salata Parmesan", which
\* matches a group of every block, and "Bacon Sandwich Pasta", which matches
\* two carbohydrate groups
OtherNames ==
    { <<"H","a","m","b","u","r","g","e","r">>,
      <<"C","h","e","e","s","e","b","u","r","g","e","r">>,
      <<"S","T","E","A","K">>,
      <<"P","r","a","w","n">>,
      <<"I","Z","G","A","R","A">>,
      <<"i_dotless","z","g","a","r","a">>,
      <<"F","r","i","e","d"," ","C","h","e","e","s","e"," ","S","a","n","d","w","i","c","h">>,
      <<"B","a","k","e","d"," ","L","a","m","b"," ","Q","u","i","n","o","a"," ","S","a","l","a","t","a"," ","P","a","r","m","e","s","a","n">>,
      <<"B","a","c","o","n"," ","S","a","n","d","w","i","c","h"," ","P","a","s","t","a">> }

\* The names of create_sample_menu
SampleNames ==
    { <<"M","e","d","i","t","e","r","r","a","n","e","a","n"," ","Q","u","i","n","o","a"," ","B","o","w","l">>,
      <<"G","r","i","l","l","e","d"," ","C","h","i","c","k","e","n"," ","C","a","e","s","a","r"," ","S","a","l","a","d">>,
      <<"C","l","a","s","s","i","c"," ","B","e","e","f"," ","B","u","r","g","e","r">>,
      <<"F","r","e","s","h"," ","S","a","l","m","o","n"," ","w","i","t","h"," ","H","e","r","b","s">>,
      <<"V","e","g","e","t","a","r","i","a","n"," ","P","a","s","t","a"," ","P","r","i","m","a","v","e","r","a">>,
      <<"T","u","r","k","i","s","h"," ","L","a","m","b"," ","K","e","b","a","b">>,
      <<"O","r","g","a","n","i","c"," ","G","a","r","d","e","n"," ","S","a","l","a","d">>,
      <<"M","u","s","h","r","o","o","m"," ","R","i","s","o","t","t","o">>,
      <<"F","i","s","h"," ","a","n","d"," ","C","h","i","p","s">>,
      <<"S","e","a","s","o","n","a","l"," ","F","r","u","i","t"," ","B","o","w","l">> }

RECURSIVE join(_)
\* " ".join(ws)
join(ws) ==
    IF Len(ws) = 0 THEN <<>>
    ELSE IF Len(ws) = 1 THEN ws[1]
    ELSE ws[1] \o <<" ">> \o join(Tail(ws))

\* Every text of at most MaxWords words (the empty string included), the
\* sample names and the other names
Names ==
    {join(ws) : ws \in UNION {[1..n -> Words] : n \in 0..MaxWords}}
    \cup SampleNames \cup OtherNames

NoCall == [called |-> FALSE]

\* No concurrent call has been started; main() is not what drives the calls
NoThreads == <<>>
NotRunning == [pc |-> "not running"]
NoCalls == <<>>

\* The dashboard (src/restaurant_system.py) has not been opened: no key of
\* st.session_state is set and no script run has taken place
NoSession == [key \in {} |-> {}]
NoForm == [item_name |-> <<>>, bulk_items |-> <<>>]
NoRun ==
    [selected |-> "dashboard", page |-> "none", event |-> "none",
     items_added |-> 0, warnings |-> <<>>, clicked |-> 0, form |-> NoForm]

(***************************************************************************)
(* Specification of the estimator alone: one call on any name               *)
(***************************************************************************)
InitEst ==
    /\ dish_name \in Names
    /\ calculator = CarbonCalculator
    /\ threads = NoThreads
    /\ main = NotRunning
    /\ calls = NoCalls
    /\ session_state = NoSession
    /\ run = NoRun
    /\ carbon_data = NoCall
    /\ frame = <<>>
    /\ menu_items = <<>>
    /\ last = [op |-> "init"]
    /\ tie_up \in [tie_totals({dish_name}) -> BOOLEAN]

Estimate ==
    /\ carbon_data = NoCall
    /\ LET locs == estimate_locals(dish_name)
       IN  /\ carbon_data' = result_dict(locs[6])
           /\ frame' = locs
    /\ UNCHANGED <<tie_up, session_state, run,
                   calculator, threads, main, calls, dish_name,
                   menu_items, last>>

NextEst == Estimate

SpecEst == InitEst /\ [][NextEst]_vars

(***************************************************************************)
(* QRMenuSystem                                                             *)
(***************************************************************************)
\* Names, prices (in hundredths) and descriptions given to add_menu_item
ClassicBeefBurger ==
    <<"C","l","a","s","s","i","c"," ","B","e","e","f"," ","B","u","r","g","e","r">>
FriedCheeseSandwich ==
    <<"F","r","i","e","d"," ","C","h","e","e","s","e"," ","S","a","n","d","w","i","c","h">>
BakedCheeseSandwich ==
    <<"B","a","k","e","d"," ","C","h","e","e","s","e"," ","S","a","n","d","w","i","c","h">>
Cheese == <<"C","h","e","e","s","e">>

DishNames ==
    {ClassicBeefBurger, FriedCheeseSandwich, BakedCheeseSandwich, Cheese}

Prices == {2000, 4500}

Descriptions == { <<>>, <<"F","r","e","s","h">> }

\* The calls of add_menu_item that are tried: every name, both prices, with
\* and without a description
MenuInputs ==
    { <<ClassicBeefBurger, 4500, <<"F","r","e","s","h">> >>,
      <<FriedCheeseSandwich, 2000, <<>> >>,
      <<BakedCheeseSandwich, 4500, <<>> >>,
      <<Cheese, 2000, <<"F","r","e","s","h">> >> }

\* description or f"Delicious {name.lower()}"
description_or_default(name, description) ==
    IF description # <<>> THEN description
    ELSE <<"D","e","l","i","c","i","o","u","s"," ">> \o lower(name)

\* MenuItem(...) as built by add_menu_item
new_item(name, price, description) ==
    LET carbon == estimate_carbon_footprint(name)
    IN  [name |-> name,
         price |-> price,
         description |-> description_or_default(name, description),
         carbon_footprint |-> carbon.total_carbon,
         is_eco_friendly |-> carbon.is_eco_friendly,
         ingredients |-> carbon.ingredients,
         cooking_methods |-> carbon.cooking_methods]

\* sum(1 for item in items if item.is_eco_friendly)
RECURSIVE count_eco(_)
count_eco(items) ==
    IF items = <<>> THEN 0
    ELSE (IF Head(items).is_eco_friendly THEN 1 ELSE 0) + count_eco(Tail(items))

\* sum(item.carbon_footprint for item in items), in hundredths
RECURSIVE sum_carbon(_)
sum_carbon(items) ==
    IF items = <<>> THEN 0
    ELSE Head(items).carbon_footprint + sum_carbon(Tail(items))

\* A quotient of two numbers, kept exact
ratio(n, d) == [num |-> n, den |-> d]

\* sorted(items, key=lambda x: x.carbon_footprint): a new list of references
\* to the same MenuItem objects, written as their positions in items;
\* ascending and stable, an item goes after every item of the same key that
\* precedes it in items
\* Mutant of insert_by_carbon: an item goes before the items of the same key
RECURSIVE insert_by_carbon_unstable(_, _, _)
insert_by_carbon_unstable(items, sorted, i) ==
    IF sorted = <<>> THEN <<i>>
    ELSE IF items[Head(sorted)].carbon_footprint < items[i].carbon_footprint
         THEN <<Head(sorted)>> \o insert_by_carbon_unstable(items, Tail(sorted), i)
         ELSE <<i>> \o sorted

RECURSIVE insert_by_carbon(_, _, _)
insert_by_carbon(items, sorted, i) ==
    IF sorted = <<>> THEN <<i>>
    ELSE IF items[Head(sorted)].carbon_footprint <= items[i].carbon_footprint
         THEN <<Head(sorted)>> \o insert_by_carbon(items, Tail(sorted), i)
         ELSE <<i>> \o sorted

RECURSIVE sorted_upto(_, _)
sorted_upto(items, n) ==
    IF n = 0 THEN <<>>
    ELSE insert_by_carbon(items, sorted_upto(items, n - 1), n)

sorted_by_carbon(items) == sorted_upto(items, Len(items))

\* s[:n] and s[-n:]
first_n(s, n) == SubSeq(s, 1, IF Len(s) < n THEN Len(s) ELSE n)
\* Mutant of last_n: the slice is taken from the front
last_n_from_front(s, n) == SubSeq(s, 1, IF Len(s) < n THEN Len(s) ELSE n)

last_n(s, n) == SubSeq(s, IF Len(s) < n THEN 1 ELSE Len(s) - n + 1, Len(s))

\* len([i for i in items if lo <= i.carbon_footprint < hi]), in hundredths
\* Mutant of count_between: the upper limit is included
count_between_closed(items, lo, hi) ==
    Cardinality({i \in 1..Len(items) :
        lo <= items[i].carbon_footprint /\ items[i].carbon_footprint <= hi})

count_between(items, lo, hi) ==
    Cardinality({i \in 1..Len(items) :
        lo <= items[i].carbon_footprint /\ items[i].carbon_footprint < hi})

count_at_least(items, lo) ==
    Cardinality({i \in 1..Len(items) : lo <= items[i].carbon_footprint})

Init ==
    /\ calculator = CarbonCalculator
    /\ threads = NoThreads
    /\ main = NotRunning
    /\ calls = NoCalls
    /\ session_state = NoSession
    /\ run = NoRun
    /\ dish_name = <<>>
    /\ carbon_data = NoCall
    /\ frame = <<>>
    /\ menu_items = <<>>
    /\ last = [op |-> "init"]
    /\ tie_up \in [tie_totals(DishNames) -> BOOLEAN]

\* The four operations below are the methods themselves: what a call does to
\* the QRMenuSystem object and what it returns.  The caller (a client of the
\* class in Next and NextCalls, main() in NextMain) states what becomes of
\* main and of its log of calls.

\* QRMenuSystem.add_menu_item(name, price, description); the MenuItem it
\* returns is the one it appended, written as its position in menu_items
\* Mutant of add_menu_item: the item is inserted at the front
add_menu_item_at_front(name, price, description) ==
    /\ Len(menu_items) < MaxItems
    /\ LET item == new_item(name, price, description)
       IN  /\ menu_items' = <<item>> \o menu_items
           /\ last' = [op |-> "add_menu_item", ret |-> 1]
    /\ UNCHANGED <<tie_up, session_state, run,
                   calculator, threads, dish_name, carbon_data, frame>>

add_menu_item(name, price, description) ==
    /\ Len(menu_items) < MaxItems
    /\ LET item == new_item(name, price, description)
       IN  /\ menu_items' = Append(menu_items, item)
           /\ last' = [op |-> "add_menu_item", ret |-> Len(menu_items) + 1]
    /\ UNCHANGED <<tie_up, session_state, run,
                   calculator, threads, dish_name, carbon_data, frame>>

\* QRMenuSystem.generate_qr_code(): building or saving the image either
\* succeeds or raises, and the exception is caught
\* Mutant of generate_qr_code: the file name is returned after a failure too
generate_qr_code_returns_name(saved) ==
    /\ last' = [op |-> "generate_qr_code",
                ret |-> "qr_menu.png",
                raised |-> IF saved THEN "None" ELSE "Exception"]
    /\ UNCHANGED <<tie_up, session_state, run,
                   calculator, threads, dish_name, carbon_data, frame,
                   menu_items>>

generate_qr_code(saved) ==
    /\ last' = [op |-> "generate_qr_code",
                ret |-> IF saved THEN "qr_menu.png" ELSE "",
                raised |-> IF saved THEN "None" ELSE "Exception"]
    /\ UNCHANGED <<tie_up, session_state, run,
                   calculator, threads, dish_name, carbon_data, frame,
                   menu_items>>

\* QRMenuSystem.generate_html_menu(): the statistics, the sorted items, the
\* page, the write of the file; any exception is caught and "" returned
generate_html_menu(written) ==
    /\ LET total_items == Len(menu_items)
           eco_items == count_eco(menu_items)
           avg_carbon == IF total_items > 0
                         THEN ratio(sum_carbon(menu_items), total_items)
                         ELSE ratio(0, 1)
           sorted_items == sorted_by_carbon(menu_items)
           computed == [op |-> "generate_html_menu",
                        total_items |-> total_items,
                        eco_items |-> eco_items,
                        avg_carbon |-> avg_carbon,
                        sorted_items |-> sorted_items]
       IN  IF total_items = 0
           THEN \* eco_items/total_items*100 in the page's f-string
                last' = computed @@ [ret |-> "", raised |-> "ZeroDivisionError"]
           ELSE LET page == computed @@
                        [eco_percent |-> ratio(eco_items * 100, total_items),
                         shown_ingredients |->
                            [i \in 1..total_items |->
                                first_n(menu_items[sorted_items[i]].ingredients, 3)],
                         carbon_high |->
                            [i \in 1..total_items |->
                                menu_items[sorted_items[i]].carbon_footprint > 400]]
                IN  IF written
                    THEN last' = page @@
                            [ret |-> "digital_menu.html", raised |-> "None"]
                    ELSE last' = page @@ [ret |-> "", raised |-> "Exception"]
    /\ UNCHANGED <<tie_up, session_state, run,
                   calculator, threads, dish_name, carbon_data, frame,
                   menu_items>>

\* QRMenuSystem.generate_report()
generate_report(written) ==
    /\ LET total_items == Len(menu_items)
       IN  IF total_items = 0
           THEN last' = [op |-> "generate_report", total_items |-> 0,
                         ret |-> "", raised |-> "None"]
           ELSE LET eco_items == count_eco(menu_items)
                    sorted_items == sorted_by_carbon(menu_items)
                    report ==
                        [op |-> "generate_report",
                         total_items |-> total_items,
                         eco_items |-> eco_items,
                         avg_carbon |-> ratio(sum_carbon(menu_items), total_items),
                         eco_percent |-> ratio(eco_items * 100, total_items),
                         lowest_carbon |-> first_n(sorted_items, 3),
                         highest_carbon |-> last_n(sorted_items, 3),
                         low |-> count_between(menu_items, 0, 200),
                         medium |-> count_between(menu_items, 200, 400),
                         high |-> count_at_least(menu_items, 400)]
                IN  IF written
                    THEN last' = report @@
                            [ret |-> "sustainability_report.txt", raised |-> "None"]
                    ELSE last' = report @@ [ret |-> "", raised |-> "Exception"]
    /\ UNCHANGED <<tie_up, session_state, run,
                   calculator, threads, dish_name, carbon_data, frame,
                   menu_items>>

Next ==
    \/ /\ \E input \in MenuInputs : add_menu_item(input[1], input[2], input[3])
       /\ UNCHANGED <<main, calls>>
    \/ /\ \E saved \in BOOLEAN : generate_qr_code(saved)
       /\ UNCHANGED <<main, calls>>
    \/ /\ \E written \in BOOLEAN : generate_html_menu(written)
       /\ UNCHANGED <<main, calls>>
    \/ /\ \E written \in BOOLEAN : generate_report(written)
       /\ UNCHANGED <<main, calls>>

Spec == Init /\ [][Next]_vars

(***************************************************************************)
(* The tables the claims are stated against: the keyword groups in their    *)
(* priority order, with the mass (hundredths of kg) of each ingredient and  *)
(* the duration (minutes) of each cooking method.                           *)
(***************************************************************************)
ProteinGroups ==
    << [tag |-> "beef", mass |-> 25,
        keywords |-> << <<"b","e","e","f">>,
                      <<"s","t","e","a","k">>,
                      <<"h","a","m","b","u","r","g","e","r">> >>],
       [tag |-> "chicken", mass |-> 20,
        keywords |-> << <<"c","h","i","c","k","e","n">>,
                      <<"t","a","v","u","k">> >>],
       [tag |-> "fish", mass |-> 18,
        keywords |-> << <<"f","i","s","h">>,
                      <<"s","a","l","m","o","n">>,
                      <<"b","a","l","i_dotless","k">> >>],
       [tag |-> "pork", mass |-> 20,
        keywords |-> << <<"p","o","r","k">>,
                      <<"b","a","c","o","n">>,
                      <<"h","a","m">> >>],
       [tag |-> "lamb", mass |-> 20,
        keywords |-> << <<"l","a","m","b">>,
                      <<"k","u","z","u">> >>] >>

CarbGroups ==
    << [tag |-> "pasta", mass |-> 10,
        keywords |-> << <<"p","a","s","t","a">>,
                      <<"s","p","a","g","h","e","t","t","i">>,
                      <<"m","a","k","a","r","n","a">> >>],
       [tag |-> "rice", mass |-> 10,
        keywords |-> << <<"r","i","c","e">>,
                      <<"p","i","l","a","v">>,
                      <<"r","i","s","o","t","t","o">> >>],
       [tag |-> "bread", mass |-> 8,
        keywords |-> << <<"s","a","n","d","w","i","c","h">>,
                      <<"b","u","r","g","e","r">>,
                      <<"b","r","e","a","d">> >>],
       [tag |-> "quinoa", mass |-> 10,
        keywords |-> << <<"q","u","i","n","o","a">> >>] >>

CookingGroups ==
    << [tag |-> "grill", minutes |-> 20,
        keywords |-> << <<"g","r","i","l","l","e","d">>,
                      <<"i_dotless","z","g","a","r","a">>,
                      <<"g","r","i","l","l">> >>],
       [tag |-> "deep_fry", minutes |-> 15,
        keywords |-> << <<"f","r","i","e","d">>,
                      <<"k","i_dotless","z","a","r","t","m","a">> >>],
       [tag |-> "oven", minutes |-> 30,
        keywords |-> << <<"b","a","k","e","d">>,
                      <<"r","o","a","s","t","e","d">>,
                      <<"f","i_dotless","r","i_dotless","n">> >>],
       [tag |-> "raw", minutes |-> 0,
        keywords |-> << <<"s","a","l","a","d">>,
                      <<"f","r","e","s","h">>,
                      <<"r","a","w">> >>] >>

SaladKeywords == << <<"s","a","l","a","d">>, <<"s","a","l","a","t","a">>, <<"v","e","g","e","t","a","b","l","e","s">> >>

CheeseKeywords == << <<"c","h","e","e","s","e">>, <<"p","e","y","n","i","r">>, <<"p","a","r","m","e","s","a","n">> >>


\* What the last estimate call saw and added
Called == carbon_data # NoCall
DishLower == lower(dish_name)
Matches(keywords) == any_in(DishLower, keywords)

\* Index of the first group with a keyword in the name, 0 when there is none
FirstMatch(groups) ==
    LET hits == {i \in 1..Len(groups) : Matches(groups[i].keywords)}
    IN  IF hits = {} THEN 0 ELSE CHOOSE i \in hits : \A j \in hits : i <= j

TagsOf(groups) == {groups[i].tag : i \in 1..Len(groups)}
Occurrences(seq, tags) == Cardinality({i \in 1..Len(seq) : seq[i] \in tags})

\* total_carbon added by each block of the call, in units of 1/3000 kg
ProteinContribution == frame[1].total_carbon
CarbContribution == frame[2].total_carbon - frame[1].total_carbon
VegetableContribution == frame[3].total_carbon - frame[2].total_carbon
DairyContribution == frame[4].total_carbon - frame[3].total_carbon
CookingContribution == frame[6].total_carbon - frame[5].total_carbon

(***************************************************************************)
(* C1.  Every stored MenuItem is eco-friendly iff its reported carbon       *)
(* footprint (the total rounded to 2 decimals) is strictly below 2.0.       *)
(* The code compares the unrounded total: "Fried Cheese Sandwich" totals    *)
(* 1.997, is reported as 2.0 and is flagged eco-friendly.                   *)
(***************************************************************************)
C1_EcoIffReportedBelowTwo ==
    \A i \in 1..Len(menu_items) :
        menu_items[i].is_eco_friendly <=> menu_items[i].carbon_footprint < 200

(***************************************************************************)
(* C2.  On an empty menu, the statistics of generate_html_menu and of       *)
(* generate_report never divide by zero, and the average carbon and the     *)
(* eco-friendly percentage they produce are 0.  generate_html_menu guards   *)
(* the average but divides eco_items by total_items in the page.            *)
(***************************************************************************)
C2_EmptyMenuNoDivisionByZero ==
    (last.op \in {"generate_html_menu", "generate_report"} /\ menu_items = <<>>)
    => /\ last.raised # "ZeroDivisionError"
       /\ "avg_carbon" \in DOMAIN last => last.avg_carbon.num = 0
       /\ "eco_percent" \in DOMAIN last => last.eco_percent.num = 0

(***************************************************************************)
(* C3.  At most one protein tag is added: the tag of the first matching     *)
(* group in the order beef, chicken, fish, pork, lamb, and none when no     *)
(* group matches.  When a beef keyword is in the name the first ingredient  *)
(* is "beef" and the protein contribution is exactly 6.75.                  *)
(***************************************************************************)
C3_ProteinFirstMatch ==
    Called =>
        LET k == FirstMatch(ProteinGroups)
        IN  /\ Occurrences(carbon_data.ingredients, TagsOf(ProteinGroups))
                 = (IF k = 0 THEN 0 ELSE 1)
            /\ k # 0 => carbon_data.ingredients[1] = ProteinGroups[k].tag
            /\ k = 0 => ProteinContribution = 0
            /\ k = 1 => /\ carbon_data.ingredients[1] = "beef"
                        /\ ProteinContribution = 20250

\* a name with a beef keyword and a keyword of a later protein group
C3_Witness ==
    /\ Called
    /\ Matches(ProteinGroups[1].keywords)
    /\ \E g \in 2..5 : Matches(ProteinGroups[g].keywords)
    /\ carbon_data.ingredients[1] = "beef"

(***************************************************************************)
(* C4.  cooking_methods holds exactly one tag, that of the first matching   *)
(* group in the order grill, deep_fry, oven, raw, and stovetop when none    *)
(* matches; the cooking contribution is the method's per-hour factor times  *)
(* its duration (20, 15, 30, 0 and 20 minutes) over 60.                     *)
(***************************************************************************)
C4_CookingFirstMatch ==
    Called =>
        LET k == FirstMatch(CookingGroups)
            method == IF k = 0 THEN "stovetop" ELSE CookingGroups[k].tag
            minutes == IF k = 0 THEN 20 ELSE CookingGroups[k].minutes
        IN  /\ carbon_data.cooking_methods = <<method>>
            /\ CookingContribution = times_minutes(cooking_factors[method], minutes)

\* a name with a deep_fry keyword and a keyword of the later raw group
C4_Witness ==
    /\ Called
    /\ FirstMatch(CookingGroups) = 2
    /\ Matches(CookingGroups[4].keywords)
    /\ carbon_data.cooking_methods = <<"deep_fry">>
    /\ CookingContribution = 3150

(***************************************************************************)
(* C5.  "Grilled Chicken Caesar Salad" gives ingredients with "chicken" and *)
(* "vegetables", cooking_methods ["grill"], total_carbon 2.95 and           *)
(* is_eco_friendly false.                                                   *)
(***************************************************************************)
GrilledChickenCaesarSalad ==
    <<"G","r","i","l","l","e","d"," ","C","h","i","c","k","e","n"," ","C","a","e","s","a","r"," ","S","a","l","a","d">>

C5_GrilledChickenCaesarSalad ==
    (Called /\ dish_name = GrilledChickenCaesarSalad) =>
        /\ \E i \in 1..Len(carbon_data.ingredients) :
              carbon_data.ingredients[i] = "chicken"
        /\ \E i \in 1..Len(carbon_data.ingredients) :
              carbon_data.ingredients[i] = "vegetables"
        /\ carbon_data.cooking_methods = <<"grill">>
        /\ carbon_data.total_carbon = 295
        /\ carbon_data.is_eco_friendly = FALSE

C5_Witness ==
    /\ Called
    /\ dish_name = GrilledChickenCaesarSalad
    /\ carbon_data.total_carbon = 295

(***************************************************************************)
(* C6.  The call returns a well-formed result for every text, the empty     *)
(* string included (no statement of the body can raise on a str); a name    *)
(* that matches no keyword at all gives ingredients ["vegetables"],         *)
(* cooking_methods ["stovetop"], total_carbon 0.80 and is_eco_friendly      *)
(* true.                                                                    *)
(***************************************************************************)
NoKeywordMatches ==
    /\ FirstMatch(ProteinGroups) = 0
    /\ FirstMatch(CarbGroups) = 0
    /\ FirstMatch(CookingGroups) = 0
    /\ ~Matches(SaladKeywords)
    /\ ~Matches(CheeseKeywords)

C6_NoKeywordDefault ==
    /\ Called =>
        /\ Len(carbon_data.ingredients) >= 1
        /\ Len(carbon_data.cooking_methods) = 1
        /\ carbon_data.total_carbon >= 0
        /\ carbon_data.is_eco_friendly \in BOOLEAN
    /\ (Called /\ NoKeywordMatches) =>
        carbon_data = [ingredients |-> <<"vegetables">>,
                       cooking_methods |-> <<"stovetop">>,
                       total_carbon |-> 80,
                       is_eco_friendly |-> TRUE]

\* the empty string
C6_Witness ==
    /\ Called
    /\ dish_name = <<>>
    /\ carbon_data.total_carbon = 80

(***************************************************************************)
(* C7.  total_carbon is, rounded to 2 decimals, the sum over the added      *)
(* ingredient tags of carbon_factors[tag] times the tag's mass plus         *)
(* cooking_factors[method] times duration/60 for the single method: the     *)
(* constants written in the estimator agree with the two factor tables.     *)
(***************************************************************************)
MassOf(tag) ==
    IF tag = "vegetables" THEN (IF Matches(SaladKeywords) THEN 20 ELSE 10)
    ELSE IF tag = "cheese" THEN 5
    ELSE IF \E i \in 1..Len(ProteinGroups) : ProteinGroups[i].tag = tag
         THEN ProteinGroups[CHOOSE i \in 1..Len(ProteinGroups) :
                                ProteinGroups[i].tag = tag].mass
         ELSE CarbGroups[CHOOSE i \in 1..Len(CarbGroups) :
                                CarbGroups[i].tag = tag].mass

MinutesOf(method) ==
    IF method = "stovetop" THEN 20
    ELSE CookingGroups[CHOOSE i \in 1..Len(CookingGroups) :
                            CookingGroups[i].tag = method].minutes

RECURSIVE TableSum(_)
TableSum(tags) ==
    IF tags = <<>> THEN 0
    ELSE times_mass(carbon_factors[Head(tags)], MassOf(Head(tags)))
         + TableSum(Tail(tags))

TableTotal ==
    TableSum(carbon_data.ingredients)
    + times_minutes(cooking_factors[carbon_data.cooking_methods[1]],
                    MinutesOf(carbon_data.cooking_methods[1]))

C7_TotalAgreesWithTables ==
    Called =>
        /\ frame[6].total_carbon = TableTotal
        /\ carbon_data.total_carbon * 30 - 15 <= TableTotal
        /\ TableTotal <= carbon_data.total_carbon * 30 + 15

\* a protein, a carbohydrate, vegetables, cheese and a cooking keyword
C7_Witness ==
    /\ Called
    /\ Len(carbon_data.ingredients) = 4
    /\ carbon_data.ingredients[4] = "cheese"
    /\ carbon_data.cooking_methods = <<"oven">>

(***************************************************************************)
(* C8.  ingredients holds "vegetables" exactly once; its contribution is    *)
(* 0.40 when the name contains "salad", "salata" or "vegetables" and 0.20   *)
(* otherwise.                                                               *)
(***************************************************************************)
C8_VegetablesOnce ==
    Called =>
        /\ Occurrences(carbon_data.ingredients, {"vegetables"}) = 1
        /\ VegetableContribution = (IF Matches(SaladKeywords) THEN 1200 ELSE 600)

C8_Witness ==
    /\ Called
    /\ Matches(SaladKeywords)
    /\ VegetableContribution = 1200

(***************************************************************************)
(* C9.  At most one carbohydrate tag is added, that of the first matching   *)
(* group in the order pasta, rice, bread, quinoa, and the choice does not   *)
(* depend on the protein group: the same name with a beef or a lamb keyword *)
(* put in front gets the same carbohydrate tag and contribution.            *)
(***************************************************************************)
CarbPart(locs) ==
    LET IsCarb(tag) == tag \in TagsOf(CarbGroups)
    IN  [tags |-> SelectSeq(locs[2].ingredients, IsCarb),
         carbon |-> locs[2].total_carbon - locs[1].total_carbon]

ProteinPrefixes == { <<"B","e","e","f"," ">>, <<"L","a","m","b"," ">> }

C9_CarbFirstMatchAnyProtein ==
    Called =>
        LET k == FirstMatch(CarbGroups)
        IN  /\ CarbPart(frame).tags
                 = (IF k = 0 THEN <<>> ELSE <<CarbGroups[k].tag>>)
            /\ CarbContribution
                 = (IF k = 0 THEN 0
                    ELSE times_mass(carbon_factors[CarbGroups[k].tag],
                                    CarbGroups[k].mass))
            /\ \A prefix \in ProteinPrefixes :
                  CarbPart(estimate_locals(prefix \o dish_name)) = CarbPart(frame)

\* a protein tag and the tag of the first of two matching carbohydrate groups
C9_Witness ==
    /\ Called
    /\ FirstMatch(ProteinGroups) # 0
    /\ Cardinality({g \in 1..Len(CarbGroups) : Matches(CarbGroups[g].keywords)}) = 2
    /\ Len(carbon_data.ingredients) >= 3
    /\ carbon_data.ingredients[2] = CarbGroups[FirstMatch(CarbGroups)].tag

(***************************************************************************)
(* C10.  A name with "salad" and no grill, deep_fry or oven keyword gets    *)
(* both the larger vegetable contribution (0.40) and the method "raw" with  *)
(* a cooking contribution of 0; a name with "salad" and one of those        *)
(* keywords keeps the 0.40, and a raw name without a salad keyword keeps    *)
(* the 0.20: neither decision depends on the other.                         *)
(***************************************************************************)
HasSalad == contains(DishLower, <<"s","a","l","a","d">>)

C10_SaladIsLargeAndRaw ==
    Called =>
        /\ (HasSalad /\ FirstMatch(CookingGroups) \notin {1, 2, 3}) =>
              /\ VegetableContribution = 1200
              /\ carbon_data.cooking_methods = <<"raw">>
              /\ CookingContribution = 0
        /\ (HasSalad /\ FirstMatch(CookingGroups) \in {1, 2, 3}) =>
              /\ VegetableContribution = 1200
              /\ carbon_data.cooking_methods # <<"raw">>
        /\ (carbon_data.cooking_methods = <<"raw">> /\ ~Matches(SaladKeywords)) =>
              VegetableContribution = 600

C10_Witness ==
    /\ Called
    /\ HasSalad
    /\ FirstMatch(CookingGroups) = 4
    /\ carbon_data.cooking_methods = <<"raw">>
    /\ VegetableContribution = 1200
    /\ CookingContribution = 0

(***************************************************************************)
(* C11.  For a non-empty menu the low (< 2.0), medium (2.0 <= c < 4.0) and  *)
(* high (>= 4.0) counts of generate_report add up to the number of items,   *)
(* each count is the number of items of its bucket, every item is in        *)
(* exactly one bucket, an item at exactly 2.0 is counted in medium and one  *)
(* at exactly 4.0 in high.                                                  *)
(***************************************************************************)
Reported == last.op = "generate_report" /\ last.total_items > 0
Carbon(i) == menu_items[i].carbon_footprint
InLow(i) == Carbon(i) < 200
InMedium(i) == Carbon(i) >= 200 /\ Carbon(i) < 400
InHigh(i) == Carbon(i) >= 400
LowItems == {i \in 1..Len(menu_items) : InLow(i)}
MediumItems == {i \in 1..Len(menu_items) : InMedium(i)}
HighItems == {i \in 1..Len(menu_items) : InHigh(i)}

Ascending(list) ==
    \A a, b \in 1..Len(list) : a < b => Carbon(list[a]) <= Carbon(list[b])
Distinct(list) ==
    \A a, b \in 1..Len(list) : a # b => list[a] # list[b]
Listed(list) == {list[a] : a \in 1..Len(list)}

C12_LowestAndHighestThree ==
    Reported =>
        LET n == Len(menu_items)
            k == IF n < 3 THEN n ELSE 3
            lowest == last.lowest_carbon
            highest == last.highest_carbon
        IN  /\ Len(lowest) = k /\ Len(highest) = k
            /\ Listed(lowest) \subseteq 1..n /\ Listed(highest) \subseteq 1..n
            /\ Distinct(lowest) /\ Distinct(highest)
            /\ Ascending(lowest) /\ Ascending(highest)
            /\ \A i \in Listed(lowest), j \in (1..n) \ Listed(lowest) :
                  Carbon(i) <= Carbon(j)
            /\ \A i \in Listed(highest), j \in (1..n) \ Listed(highest) :
                  Carbon(j) <= Carbon(i)
            /\ (n < 3 => Listed(lowest) = 1..n /\ Listed(highest) = 1..n)

\* a report on four items of three different footprints: the two lists differ
C12_Witness ==
    /\ Reported
    /\ Len(menu_items) = 4
    /\ Cardinality({Carbon(i) : i \in 1..4}) >= 3
    /\ Listed(last.lowest_carbon) # Listed(last.highest_carbon)

(***************************************************************************)
(* C13.  Items of the same carbon_footprint keep the order in which they    *)
(* were added: in the sorted list of the HTML menu and in the lowest and    *)
(* highest lists of the report, of two items with equal footprint the one   *)
(* added first comes first, and when only one of them is listed it is the   *)
(* earlier one in the lowest list and the later one in the highest list.    *)
(***************************************************************************)
KeepsAddedOrder(list) ==
    \A a, b \in 1..Len(list) :
        (a < b /\ Carbon(list[a]) = Carbon(list[b])) => list[a] < list[b]

C13_StableOrder ==
    /\ (last.op = "generate_html_menu" =>
            /\ Len(last.sorted_items) = Len(menu_items)
            /\ Listed(last.sorted_items) = 1..Len(menu_items)
            /\ Ascending(last.sorted_items)
            /\ KeepsAddedOrder(last.sorted_items))
    /\ (Reported =>
            /\ KeepsAddedOrder(last.lowest_carbon)
            /\ KeepsAddedOrder(last.highest_carbon)
            /\ \A i \in Listed(last.lowest_carbon),
                  j \in (1..Len(menu_items)) \ Listed(last.lowest_carbon) :
                  Carbon(i) = Carbon(j) => i < j
            /\ \A i \in Listed(last.highest_carbon),
                  j \in (1..Len(menu_items)) \ Listed(last.highest_carbon) :
                  Carbon(i) = Carbon(j) => j < i)

\* a report on a menu where two different items of footprint 2.0 follow a
\* higher one: both are listed, the one added first before the other
C13_Witness ==
    /\ Reported
    /\ \E a, b \in 1..Len(last.lowest_carbon) :
          /\ a < b
          /\ Carbon(last.lowest_carbon[a]) = Carbon(last.lowest_carbon[b])
          /\ menu_items[last.lowest_carbon[a]] # menu_items[last.lowest_carbon[b]]
          /\ \E h \in 1..Len(menu_items) :
                h < last.lowest_carbon[a] /\ Carbon(h) > Carbon(last.lowest_carbon[a])

(***************************************************************************)
(* C16.  menu_items only grows at its end: a step of add_menu_item appends  *)
(* exactly one item and keeps every earlier item, in place and field by     *)
(* field; a step of generate_html_menu, generate_qr_code or generate_report *)
(* leaves menu_items as it was.                                             *)
(***************************************************************************)
C16_MenuAppendOnly ==
    [][ IF last'.op = "add_menu_item"
        THEN /\ Len(menu_items') = Len(menu_items) + 1
             /\ SubSeq(menu_items', 1, Len(menu_items)) = menu_items
             /\ last'.ret = Len(menu_items')
        ELSE menu_items' = menu_items ]_vars

\* an item was added behind an item of lower footprint and one of higher
\* footprint, and a report was made of the three
C16_Witness ==
    /\ Reported
    /\ Len(menu_items) >= 3
    /\ Carbon(1) > Carbon(2)
    /\ Carbon(2) < Carbon(3)

(***************************************************************************)
(* C19.  When generate_html_menu, generate_qr_code or generate_report       *)
(* raises inside (the file cannot be written, the image cannot be built,    *)
(* or any other Exception), the call returns "" to its caller and           *)
(* menu_items is what it was before the call.                               *)
(***************************************************************************)
GenerateOps == {"generate_html_menu", "generate_qr_code", "generate_report"}

C19_FailureReturnsEmpty ==
    [][ (last'.op \in GenerateOps /\ last'.raised # "None") =>
            (last'.ret = "" /\ menu_items' = menu_items) ]_vars

\* a failed write of the report of a non-empty menu
C19_Witness ==
    /\ last.op = "generate_report"
    /\ last.raised = "Exception"
    /\ last.ret = ""
    /\ menu_items # <<>>

(***************************************************************************)
(* C20.  The eco-friendly count of generate_report equals the number of     *)
(* items in its low-carbon bucket (carbon_footprint < 2.0).  An item whose  *)
(* unrounded total is below 2.0 and rounds to 2.0 is counted as             *)
(* eco-friendly and falls in the medium bucket.                             *)
(***************************************************************************)
C20_EcoCountIsLowBucket == Reported => last.eco_items = last.low

(***************************************************************************)
(* A client that calls the estimator directly and through add_menu_item,   *)
(* in any order, and logs the name and the result of every call            *)
(***************************************************************************)
MaxCalls == 3     \* calls logged

\* calculator.estimate_carbon_footprint(name), called by the client
estimate_call(name) ==
    /\ LET locs == estimate_locals(name)
       IN  /\ dish_name' = name
           /\ carbon_data' = result_dict(locs[6])
           /\ frame' = locs
           /\ calls' = Append(calls, [via |-> "estimate_carbon_footprint",
                                      name |-> name,
                                      result |-> result_dict(locs[6])])
    /\ UNCHANGED <<tie_up, session_state, run,
                   calculator, threads, main, menu_items, last>>

\* The carbon_data that add_menu_item received, as it copied it field by
\* field into the MenuItem
carbon_data_of(item) ==
    [ingredients |-> item.ingredients,
     cooking_methods |-> item.cooking_methods,
     total_carbon |-> item.carbon_footprint,
     is_eco_friendly |-> item.is_eco_friendly]

NextCalls ==
    \/ \E name \in DishNames :
          /\ Len(calls) < MaxCalls
          /\ estimate_call(name)
    \/ \E input \in MenuInputs :
          /\ Len(calls) < MaxCalls
          /\ add_menu_item(input[1], input[2], input[3])
          /\ calls' = Append(calls, [via |-> "add_menu_item",
                                     name |-> input[1],
                                     result |-> carbon_data_of(
                                         menu_items'[Len(menu_items')])])
          /\ UNCHANGED main

SpecCalls == Init /\ [][NextCalls]_vars

MaxEntries == 2   \* items entered in the custom loop of main

\* sample_items of create_sample_menu: name, price in hundredths, description
sample_items ==
    <<
       <<<<"M","e","d","i","t","e","r","r","a","n","e","a","n"," ","Q","u","i","n","o","a"," ","B","o","w","l">>,
         3500,
         <<"F","r","e","s","h"," ","q","u","i","n","o","a"," ","w","i","t","h"," ","v","e","g","e","t","a","b","l","e","s"," ","a","n","d"," ","h","e","r","b","s">>>>,
       <<<<"G","r","i","l","l","e","d"," ","C","h","i","c","k","e","n"," ","C","a","e","s","a","r"," ","S","a","l","a","d">>,
         4500,
         <<"G","r","i","l","l","e","d"," ","c","h","i","c","k","e","n"," ","w","i","t","h"," ","r","o","m","a","i","n","e"," ","a","n","d"," ","p","a","r","m","e","s","a","n">>>>,
       <<<<"C","l","a","s","s","i","c"," ","B","e","e","f"," ","B","u","r","g","e","r">>,
         5500,
         <<"B","e","e","f"," ","p","a","t","t","y"," ","w","i","t","h"," ","l","e","t","t","u","c","e",","," ","t","o","m","a","t","o",","," ","c","h","e","e","s","e">>>>,
       <<<<"F","r","e","s","h"," ","S","a","l","m","o","n"," ","w","i","t","h"," ","H","e","r","b","s">>,
         7500,
         <<"G","r","i","l","l","e","d"," ","s","a","l","m","o","n"," ","w","i","t","h"," ","s","e","a","s","o","n","a","l"," ","h","e","r","b","s">>>>,
       <<<<"V","e","g","e","t","a","r","i","a","n"," ","P","a","s","t","a"," ","P","r","i","m","a","v","e","r","a">>,
         4000,
         <<"P","a","s","t","a"," ","w","i","t","h"," ","f","r","e","s","h"," ","s","e","a","s","o","n","a","l"," ","v","e","g","e","t","a","b","l","e","s">>>>,
       <<<<"T","u","r","k","i","s","h"," ","L","a","m","b"," ","K","e","b","a","b">>,
         6500,
         <<"T","r","a","d","i","t","i","o","n","a","l"," ","l","a","m","b"," ","k","e","b","a","b"," ","w","i","t","h"," ","r","i","c","e">>>>,
       <<<<"O","r","g","a","n","i","c"," ","G","a","r","d","e","n"," ","S","a","l","a","d">>,
         2500,
         <<"F","r","e","s","h"," ","o","r","g","a","n","i","c"," ","g","r","e","e","n","s"," ","w","i","t","h"," ","o","l","i","v","e"," ","o","i","l">>>>,
       <<<<"M","u","s","h","r","o","o","m"," ","R","i","s","o","t","t","o">>,
         5000,
         <<"C","r","e","a","m","y"," ","r","i","s","o","t","t","o"," ","w","i","t","h"," ","w","i","l","d"," ","m","u","s","h","r","o","o","m","s">>>>,
       <<<<"F","i","s","h"," ","a","n","d"," ","C","h","i","p","s">>,
         4800,
         <<"B","e","e","r"," ","b","a","t","t","e","r","e","d"," ","f","i","s","h"," ","w","i","t","h"," ","p","o","t","a","t","o"," ","c","h","i","p","s">>>>,
       <<<<"S","e","a","s","o","n","a","l"," ","F","r","u","i","t"," ","B","o","w","l">>,
         2000,
         <<"F","r","e","s","h"," ","s","e","a","s","o","n","a","l"," ","f","r","u","i","t","s">>>>
    >>

\* QRMenuSystem.create_sample_menu(): add_menu_item on each sample in turn
create_sample_menu ==
    /\ menu_items' = menu_items \o
            [i \in 1..Len(sample_items) |->
                new_item(sample_items[i][1], sample_items[i][2], sample_items[i][3])]
    /\ last' = [op |-> "add_menu_item", ret |-> Len(menu_items')]
    /\ UNCHANGED <<tie_up, session_state, run,
                   calculator, threads, dish_name, carbon_data, frame>>

\* str.strip(): drops leading and trailing whitespace
Whitespace == {" ", "\t", "\n", "\r"}

RECURSIVE lstrip(_)
lstrip(s) == IF s # <<>> /\ Head(s) \in Whitespace THEN lstrip(Tail(s)) ELSE s

RECURSIVE rstrip(_)
rstrip(s) ==
    IF s # <<>> /\ s[Len(s)] \in Whitespace
    THEN rstrip(SubSeq(s, 1, Len(s) - 1))
    ELSE s

strip(s) == rstrip(lstrip(s))

\* float(text) for the decimal notations without exponent: surrounding
\* whitespace is ignored, then an optional sign, digits with at most one
\* point and at least one digit; anything else raises ValueError.  The
\* value is in hundredths; the texts tried have at most two decimals.
DecimalDigits == <<"0","1","2","3","4","5","6","7","8","9">>
IsDigit(c) == \E d \in 1..10 : DecimalDigits[d] = c
digit_value(c) == (CHOOSE d \in 1..10 : DecimalDigits[d] = c) - 1

RECURSIVE digits_value(_)
digits_value(ds) ==
    IF ds = <<>> THEN 0
    ELSE digits_value(SubSeq(ds, 1, Len(ds) - 1)) * 10 + digit_value(ds[Len(ds)])

parse_float(text) ==
    LET t == strip(text)
        signed == t # <<>> /\ t[1] \in {"+", "-"}
        body == IF signed THEN Tail(t) ELSE t
        points == {i \in 1..Len(body) : body[i] = "."}
        point == IF points = {} THEN Len(body) + 1
                 ELSE CHOOSE i \in points : \A j \in points : i <= j
        whole == SubSeq(body, 1, point - 1)
        decimals == SubSeq(body, point + 1, Len(body))
        hundredths == SubSeq(decimals \o <<"0","0">>, 1, 2)
        magnitude == digits_value(whole) * 100 + digits_value(hundredths)
    IN  IF /\ Cardinality(points) <= 1
           /\ Len(whole) + Len(decimals) >= 1
           /\ \A i \in 1..Len(whole) : IsDigit(whole[i])
           /\ \A i \in 1..Len(decimals) : IsDigit(decimals[i])
        THEN [raised |-> "None",
              value |-> IF signed /\ t[1] = "-" THEN 0 - magnitude ELSE magnitude]
        ELSE [raised |-> "ValueError"]

\* Lines typed at the prompts of main
ChoiceTexts == { <<"1">>, <<" ","2">>, <<>> }
NameTexts == { <<>>, <<" ">>, <<" ","C","h","e","e","s","e"," ">> }
PriceTexts ==
    { <<" ","2","0"," ">>, <<"4",".","5">>, <<"-","5">>, <<"a","b","c">>, <<>> }
DescriptionTexts == { <<" ">>, <<"F","r","e","s","h">> }
MainNames == {strip(text) : text \in NameTexts} \ {<<>>}

\* The locals of main that matter: where it is, the name and the price text
\* read by the current pass of the custom loop, and what the pass printed
at(pc, name, price_text, printed) ==
    [pc |-> pc, name |-> name, price_text |-> price_text, printed |-> printed]

\* main up to the prompt for the choice: the restaurant name is read and
\* the QRMenuSystem is created
InitMain ==
    /\ calculator = CarbonCalculator
    /\ threads = NoThreads
    /\ main = at("choice", <<>>, <<>>, "")
    /\ calls = NoCalls
    /\ session_state = NoSession
    /\ run = NoRun
    /\ dish_name = <<>>
    /\ carbon_data = NoCall
    /\ frame = <<>>
    /\ menu_items = <<>>
    /\ last = [op |-> "init"]
    /\ tie_up \in [tie_totals(SampleNames \cup MainNames) -> BOOLEAN]

\* choice = input(...).strip(): "2" enters the custom loop, anything else
\* creates the sample menu
main_choice(text) ==
    /\ main.pc = "choice"
    /\ IF strip(text) = <<"2">>
       THEN /\ main' = at("item name", <<>>, <<>>, "")
            /\ UNCHANGED <<tie_up, session_state, run,
                           calculator, threads, dish_name, carbon_data,
                           frame, menu_items, last>>
       ELSE /\ create_sample_menu
            /\ main' = at("generate_html_menu", <<>>, <<>>, "")
    /\ UNCHANGED calls

\* name = input("Item name: ").strip(); an empty name leaves the loop
main_item_name(text) ==
    /\ main.pc = "item name"
    /\ LET name == strip(text)
       IN  IF name = <<>>
           THEN main' = at("generate_html_menu", <<>>, <<>>, "")
           ELSE main' = at("price", name, <<>>, "")
    /\ UNCHANGED <<tie_up, session_state, run,
                   calculator, threads, calls, dish_name, carbon_data,
                   frame, menu_items, last>>

\* The rest of the pass: price = float(input(...)), then the description is
\* read and the item added; a ValueError of float is caught and reported,
\* and the loop prompts for the next name either way
main_price(price_text, description_text) ==
    /\ main.pc = "price"
    /\ LET price == parse_float(price_text)
       IN  IF price.raised = "ValueError"
           THEN /\ main' = at("item name", main.name, price_text,
                              "Invalid price, please enter a number")
                /\ UNCHANGED <<tie_up, session_state, run,
                               calculator, threads, dish_name,
                               carbon_data, frame, menu_items, last>>
           ELSE /\ Len(menu_items) < MaxEntries
                /\ add_menu_item(main.name, price.value, strip(description_text))
                /\ main' = at("item name", main.name, price_text, "")
    /\ UNCHANGED calls

\* html_file = system.generate_html_menu(), qr_file = system.generate_qr_code()
\* and report_file = system.generate_report(), then the summary is printed
main_generate_html_menu ==
    /\ main.pc = "generate_html_menu"
    /\ \E written \in BOOLEAN : generate_html_menu(written)
    /\ main' = [main EXCEPT !.pc = "generate_qr_code"]
    /\ UNCHANGED calls

main_generate_qr_code ==
    /\ main.pc = "generate_qr_code"
    /\ \E saved \in BOOLEAN : generate_qr_code(saved)
    /\ main' = [main EXCEPT !.pc = "generate_report"]
    /\ UNCHANGED calls

main_generate_report ==
    /\ main.pc = "generate_report"
    /\ \E written \in BOOLEAN : generate_report(written)
    /\ main' = [main EXCEPT !.pc = "summary"]
    /\ UNCHANGED calls

NextMain ==
    \/ \E text \in ChoiceTexts : main_choice(text)
    \/ \E text \in NameTexts : main_item_name(text)
    \/ \E price_text \in PriceTexts, description_text \in DescriptionTexts :
          main_price(price_text, description_text)
    \/ main_generate_html_menu
    \/ main_generate_qr_code
    \/ main_generate_report

SpecMain == InitMain /\ [][NextMain]_vars

(***************************************************************************)
(* C15.  In the custom loop of main, when the price typed does not parse    *)
(* as a non-negative number, the pass adds no item, leaves menu_items as    *)
(* it was, and the loop prompts for the next item name.  float() accepts a  *)
(* negative number: "-5" is added as an item of price -5.0.                 *)
(***************************************************************************)
NonNegativeNumber(text) ==
    parse_float(text).raised = "None" /\ parse_float(text).value >= 0

C15_BadPriceAddsNothing ==
    [][ (main.pc = "price" /\ ~NonNegativeNumber(main'.price_text)) =>
            (menu_items' = menu_items /\ main'.pc = "item name") ]_vars

(***************************************************************************)
(* C18.  Every item of a menu collection has a non-empty name, a            *)
(* non-negative price and a non-negative carbon footprint.  The custom      *)
(* loop of main stores whatever float() returns: a negative price typed at  *)
(* the prompt ends up in menu_items.                                        *)
(***************************************************************************)
C18_ItemsWellFormed ==
    \A i \in 1..Len(menu_items) :
        /\ menu_items[i].name # <<>>
        /\ menu_items[i].price >= 0
        /\ menu_items[i].carbon_footprint >= 0

(***************************************************************************)
(* Concurrent calls of estimate_carbon_footprint on one CarbonCalculator:   *)
(* each thread runs the body block by block on its own locals; the          *)
(* calculator's two tables are the only data the threads share.             *)
(***************************************************************************)
MaxThreads == 2   \* threads calling the estimator

ThreadNames == {ClassicBeefBurger, Cheese}

Idle == [state |-> "idle"]

InitThreads ==
    /\ calculator = CarbonCalculator
    /\ threads = [t \in 1..MaxThreads |-> Idle]
    /\ main = NotRunning
    /\ calls = NoCalls
    /\ session_state = NoSession
    /\ run = NoRun
    /\ dish_name = <<>>
    /\ carbon_data = NoCall
    /\ frame = <<>>
    /\ menu_items = <<>>
    /\ last = [op |-> "init"]
    /\ tie_up \in [tie_totals(ThreadNames) -> BOOLEAN]

\* The k-th block of the body, on the locals loc of the calling thread
block(k, dish_lower, loc) ==
    CASE k = 1 -> protein_block(dish_lower, loc)
      [] k = 2 -> carbs_block(dish_lower, loc)
      [] k = 3 -> vegetables_block(dish_lower, loc)
      [] k = 4 -> dairy_block(dish_lower, loc)
      [] k = 5 -> cooking_block(dish_lower, loc)
      [] k = 6 -> add_cooking(loc)

\* Thread t enters estimate_carbon_footprint(name); among is the set of
\* threads that are inside the body at that moment
thread_call(t, name) ==
    /\ threads[t].state = "idle"
    /\ threads' = [threads EXCEPT ![t] =
            [state |-> "running", name |-> name, done |-> 0, loc |-> locals0,
             among |-> {u \in DOMAIN threads : threads[u].state = "running"}]]
    /\ UNCHANGED <<tie_up, session_state, run,
                   calculator, main, calls, dish_name, carbon_data,
                   frame, menu_items, last>>

\* Mutant of thread_step: the ingredients list is an attribute of the
\* calculator, one list for all threads
thread_step_shared_locals(t) ==
    /\ threads[t].state = "running"
    /\ threads[t].done < 6
    /\ LET shared == IF frame = <<>> THEN threads[t].loc
                     ELSE [threads[t].loc EXCEPT
                              !.ingredients = frame[1].ingredients]
           after == block(threads[t].done + 1, lower(threads[t].name), shared)
       IN  /\ threads' = [threads EXCEPT ![t].done = @ + 1, ![t].loc = after]
           /\ frame' = <<after>>
    /\ UNCHANGED <<tie_up, session_state, run,
                   calculator, main, calls, dish_name, carbon_data,
                   menu_items, last>>

\* Thread t runs the next block of the body
thread_step(t) ==
    /\ threads[t].state = "running"
    /\ threads[t].done < 6
    /\ threads' = [threads EXCEPT
            ![t].done = @ + 1,
            ![t].loc = block(threads[t].done + 1, lower(threads[t].name), @)]
    /\ UNCHANGED <<tie_up, session_state, run,
                   calculator, main, calls, dish_name, carbon_data,
                   frame, menu_items, last>>

\* Thread t returns the dict
thread_return(t) ==
    /\ threads[t].state = "running"
    /\ threads[t].done = 6
    /\ threads' = [threads EXCEPT ![t] =
            [state |-> "returned", name |-> threads[t].name,
             result |-> result_dict(threads[t].loc),
             among |-> threads[t].among]]
    /\ UNCHANGED <<tie_up, session_state, run,
                   calculator, main, calls, dish_name, carbon_data,
                   frame, menu_items, last>>

NextThreads ==
    \/ \E t \in 1..MaxThreads, name \in ThreadNames : thread_call(t, name)
    \/ \E t \in 1..MaxThreads : thread_step(t)
    \/ \E t \in 1..MaxThreads : thread_return(t)

SpecThreads == InitThreads /\ [][NextThreads]_vars

(***************************************************************************)
(* C17.  Concurrent calls of estimate_carbon_footprint, in any              *)
(* interleaving of their blocks, each return what the same call returns     *)
(* when it runs alone, and the calculator's carbon_factors and              *)
(* cooking_factors keep the values __init__ gave them in every reachable    *)
(* state.                                                                   *)
(***************************************************************************)
C17_ConcurrentCallsAsAlone ==
    /\ calculator = CarbonCalculator
    /\ \A t \in DOMAIN threads :
          threads[t].state = "returned" =>
              threads[t].result = estimate_carbon_footprint(threads[t].name)

\* two calls on different names have returned, the second of them entered
\* while the first was inside the body
C17_Witness ==
    \E t, u \in DOMAIN threads :
        /\ threads[t].state = "returned"
        /\ threads[u].state = "returned"
        /\ t \in threads[u].among
        /\ threads[t].name # threads[u].name
        /\ threads[t].result # threads[u].result

(***************************************************************************)
(* C21.  For every dish name, ingredients holds between 1 and 4 tags, no    *)
(* tag twice, in the order protein tag (if any), carbohydrate tag (if       *)
(* any), "vegetables", "cheese" (if any); so ingredients[:3], which the     *)
(* HTML menu shows, is the whole list or the list without its last tag      *)
(* "cheese".                                                                *)
(***************************************************************************)
TagRank(tag) ==
    IF tag \in TagsOf(ProteinGroups) THEN 1
    ELSE IF tag \in TagsOf(CarbGroups) THEN 2
    ELSE IF tag = "vegetables" THEN 3
    ELSE IF tag = "cheese" THEN 4
    ELSE 0

C21_IngredientsOrder ==
    Called =>
        LET tags == carbon_data.ingredients
            shown == first_n(tags, 3)
        IN  /\ Len(tags) \in 1..4
            /\ \A a \in 1..Len(tags) : TagRank(tags[a]) \in 1..4
            /\ \A a, b \in 1..Len(tags) :
                  a < b => TagRank(tags[a]) < TagRank(tags[b])
            /\ \E a \in 1..Len(tags) : tags[a] = "vegetables"
            /\ (tags = shown \/ tags = shown \o <<"cheese">>)

\* a name with a protein, a carbohydrate and a cheese keyword: four tags,
\* of which the first three are shown
C21_Witness ==
    /\ Called
    /\ Len(carbon_data.ingredients) = 4
    /\ carbon_data.ingredients[4] = "cheese"
    /\ first_n(carbon_data.ingredients, 3) # carbon_data.ingredients

(***************************************************************************)
(* The dashboard (src/restaurant_system.py).  Streamlit runs main() from    *)
(* top to bottom on every interaction of the user; st.session_state is the *)
(* only data that outlives a run.  Each action below is one interaction     *)
(* with the run it triggers and, where the handler calls st.rerun(), the    *)
(* run that follows.  Names of restaurants, pages and categories are only   *)
(* compared and are written as plain strings; item names and the bulk text  *)
(* are searched and split and are sequences of characters.  Prices are in   *)
(* hundredths.                                                              *)
(***************************************************************************)
MaxRestaurants == 2   \* restaurants in the session
MaxMenuItems == 2     \* menu items in the session
MaxCampaigns == 1     \* marketing campaigns in the session
MaxFeedback == 1      \* feedback entries in the session
MaxSeeds == 1         \* states the random generator can be in at a draw

\* The keys initialize_session_state sets, with the values it gives them
SessionKeys ==
    {"restaurants", "menu_items", "categories", "orders", "customers",
     "marketing_campaigns", "sales_data", "customer_feedback"}

session_defaults ==
    [key \in SessionKeys |->
        IF key = "categories"
        THEN <<"Appetizers", "Main Course", "Desserts", "Beverages", "Soups",
               "Salads">>
        ELSE <<>>]

\* Mutant of initialize_session_state: restaurants is set on every run
initialize_session_state_resets_restaurants(state) ==
    [key \in DOMAIN state \cup SessionKeys |->
        IF key \in DOMAIN state /\ key # "restaurants" THEN state[key]
        ELSE session_defaults[key]]

\* initialize_session_state(): each key is set only if it is not in the state
initialize_session_state(state) ==
    [key \in DOMAIN state \cup SessionKeys |->
        IF key \in DOMAIN state THEN state[key] ELSE session_defaults[key]]

\* The page keys of main's pages dict
Pages ==
    {"dashboard", "restaurants", "menu", "sales", "marketing", "customers",
     "qr_codes", "feedback"}

\* str(uuid.uuid4()): a value no record of the collection carries.  The ids
\* are only compared for equality, so the smallest unused number stands for
\* any fresh value.
uuid4(records) ==
    CHOOSE id \in 1..(Len(records) + 1) :
        \A i \in 1..Len(records) : records[i].id # id

\* The random module: the seed is the generator's state when the first
\* number is drawn, the n-th draw after it is a fixed function of both
random(seed, n) == (seed * 7919 + n * 104729 + n * n * 13) % 1000003
randint(seed, n, lo, hi) == lo + (random(seed, n) % (hi - lo + 1))
choice(seed, n, seq) == seq[1 + (random(seed, n) % Len(seq))]
Seeds == 1..MaxSeeds

SampleDays == 30
LeastOrdersPerDay == 5
MostOrdersPerDay == 25
MostQuantity == 3
SampleCustomers == 50

\* The default items of generate_sample_sales_data
default_items ==
    <<
       [item_name |-> <<"M","a","r","g","h","e","r","i","t","a"," ","P","i","z","z","a">>,
        price |-> 1299],
       [item_name |-> <<"C","a","e","s","a","r"," ","S","a","l","a","d">>,
        price |-> 899],
       [item_name |-> <<"P","a","s","t","a"," ","C","a","r","b","o","n","a","r","a">>,
        price |-> 1499],
       [item_name |-> <<"G","r","i","l","l","e","d"," ","C","h","i","c","k","e","n">>,
        price |-> 1699],
       [item_name |-> <<"C","h","o","c","o","l","a","t","e"," ","C","a","k","e">>,
        price |-> 699]
    >>

first_names ==
    <<"John", "Jane", "Mike", "Sarah", "David", "Lisa", "Chris", "Emma",
      "Alex", "Maria">>
last_names ==
    <<"Smith", "Johnson", "Williams", "Brown", "Jones", "Garcia", "Miller",
      "Davis", "Rodriguez", "Martinez">>

\* restaurants[0]['name'] if restaurants else 'Demo Restaurant'
first_restaurant(state) ==
    IF state["restaurants"] # <<>> THEN state["restaurants"][1].name
    ELSE "Demo Restaurant"

\* The sales of the days from day on (day 0 is today), the draws numbered
\* from n: orders_per_day first, then an item and a quantity per order
RECURSIVE sample_sales(_, _, _, _, _, _)
sample_sales(seed, day, n, made, items, restaurant_name) ==
    IF day = SampleDays THEN <<>>
    ELSE LET orders_per_day ==
                 randint(seed, n, LeastOrdersPerDay, MostOrdersPerDay)
             sales ==
                 [j \in 1..orders_per_day |->
                     LET item == choice(seed, n + 2 * j - 1, items)
                         quantity == randint(seed, n + 2 * j, 1, MostQuantity)
                     IN  [id |-> made + j,
                          date |-> day,
                          item_name |-> item.item_name,
                          quantity |-> quantity,
                          price |-> item.price,
                          amount |-> item.price * quantity,
                          restaurant_name |-> restaurant_name]]
         IN  sales \o sample_sales(seed, day + 1, n + 1 + 2 * orders_per_day,
                                   made + orders_per_day, items,
                                   restaurant_name)

\* generate_sample_sales_data()
generate_sample_sales_data(state, seed) ==
    LET items == IF state["menu_items"] # <<>> THEN state["menu_items"]
                 ELSE default_items
    IN  [state EXCEPT !["sales_data"] =
            sample_sales(seed, 0, 1, 0, items, first_restaurant(state))]

\* generate_sample_customer_data(): ten draws per customer (both names, the
\* three parts of the phone number, total_orders, lifetime_value, is_new,
\* join_date, last_order_date); the e-mail, the phone number and the
\* lifetime value are not kept in the model, no operation reads them
generate_sample_customer_data(state, seed) ==
    [state EXCEPT !["customers"] =
        [i \in 1..SampleCustomers |->
            LET n == 10 * (i - 1)
            IN  [id |-> i,
                 name |-> <<choice(seed, n + 1, first_names),
                            choice(seed, n + 2, last_names)>>,
                 total_orders |-> randint(seed, n + 6, 0, 25),
                 is_new |-> choice(seed, n + 8, <<TRUE, FALSE>>),
                 join_date |-> randint(seed, n + 9, 1, 365),
                 last_order_date |-> randint(seed, n + 10, 1, 30),
                 preferred_restaurant |-> first_restaurant(state)]]]


(***************************************************************************)
(* The runs of the dashboard.  run.selected is the page the sidebar radio   *)
(* shows, run.page the page function the last run called, run.event the     *)
(* interaction that triggered it; items_added, warnings and clicked are     *)
(* what the handler of that interaction computed, form what was typed into  *)
(* the form of add_menu_item.                                               *)
(***************************************************************************)
\* The variables of the QR menu program, which the dashboard never touches
qr_menu_vars ==
    <<tie_up, calculator, threads, main, calls, dish_name, carbon_data, frame,
      menu_items, last>>

\* main: page_key = pages[selected_page]; the session state is not read
page_key(selected_page, state) == selected_page

\* Mutant of page_routing: the sales page draws new sales on every visit
page_routing_always_generates(page, state, seed) ==
    IF page = "sales" THEN generate_sample_sales_data(state, seed)
    ELSE IF page = "customers" /\ state["customers"] = <<>>
    THEN generate_sample_customer_data(state, seed)
    ELSE state

\* main's page routing: what calling the page function without any click
\* does to the session state
page_routing(page, state, seed) ==
    IF page = "sales" /\ state["sales_data"] = <<>>
    THEN generate_sample_sales_data(state, seed)
    ELSE IF page = "customers" /\ state["customers"] = <<>>
    THEN generate_sample_customer_data(state, seed)
    ELSE state

\* A run of main with the radio on page `selected`, triggered by event
a_run(selected, state, event) ==
    [selected |-> selected, page |-> page_key(selected, state),
     event |-> event, items_added |-> 0, warnings |-> <<>>, clicked |-> 0,
     form |-> NoForm]

\* The user picks a page in the sidebar: one run of main
select_page(selected_page, seed) ==
    LET state == initialize_session_state(session_state)
        page == page_key(selected_page, state)
    IN  /\ session_state' = page_routing(page, state, seed)
        /\ run' = a_run(selected_page, state, "select_page")
        /\ UNCHANGED qr_menu_vars

\* The texts typed into the name fields of the forms
RestaurantNames == {"", "Roma"}

\* add_restaurant(): the form is submitted with the name typed.  The other
\* fields of the record are stored as typed and never read by an operation.
add_restaurant(name) ==
    LET state == initialize_session_state(session_state)
        restaurants == state["restaurants"]
        restaurant == [id |-> uuid4(restaurants), name |-> name]
    IN  /\ run.selected = "restaurants"
        /\ Len(restaurants) < MaxRestaurants
        /\ session_state' =
               IF name # ""
               THEN [state EXCEPT !["restaurants"] =
                        Append(restaurants, restaurant)]
               ELSE state
        /\ run' = a_run("restaurants", state, "add_restaurant")
        /\ UNCHANGED qr_menu_vars

\* list.pop(i), i counted from 1
pop(seq, i) == SubSeq(seq, 1, i - 1) \o SubSeq(seq, i + 1, Len(seq))

\* Mutant of delete_restaurant: the menu items of the restaurant go with it
delete_restaurant_with_items(i) ==
    LET state == initialize_session_state(session_state)
        restaurants == state["restaurants"]
    IN  /\ run.selected = "restaurants"
        /\ i \in 1..Len(restaurants)
        /\ session_state' =
               [state EXCEPT
                   !["restaurants"] = pop(restaurants, i),
                   !["menu_items"] =
                       SelectSeq(@, LAMBDA mi :
                           mi.restaurant_name # restaurants[i].name)]
        /\ run' = [a_run("restaurants", state, "delete_restaurant")
                      EXCEPT !.clicked = i]
        /\ UNCHANGED qr_menu_vars

\* view_restaurants(): the Delete button of the restaurant at position i
delete_restaurant(i) ==
    LET state == initialize_session_state(session_state)
        restaurants == state["restaurants"]
    IN  /\ run.selected = "restaurants"
        /\ i \in 1..Len(restaurants)
        /\ session_state' =
               [state EXCEPT !["restaurants"] = pop(restaurants, i)]
        /\ run' = [a_run("restaurants", state, "delete_restaurant")
                      EXCEPT !.clicked = i]
        /\ UNCHANGED qr_menu_vars

\* str.split(sep) for a separator of one character
RECURSIVE split(_, _)
split(s, sep) ==
    LET seps == {i \in 1..Len(s) : s[i] = sep}
    IN  IF seps = {} THEN <<s>>
        ELSE LET i == CHOOSE k \in seps : \A j \in seps : k <= j
             IN  <<SubSeq(s, 1, i - 1)>> \o split(SubSeq(s, i + 1, Len(s)), sep)

\* sep in s
has(s, sep) == \E i \in 1..Len(s) : s[i] = sep

\* The single item of the form.  The ingredients, the description, the two
\* checkboxes and the creation date are stored as typed and never read by an
\* operation.
manual_item(items, selected_restaurant, item_name, category, price, carbon_footprint) ==
    [id |-> uuid4(items), restaurant_name |-> selected_restaurant,
     item_name |-> item_name, category |-> category, price |-> price,
     carbon_footprint |-> carbon_footprint, source |-> "Manual"]

bulk_menu_item(items, selected_restaurant, name, price_val) ==
    [id |-> uuid4(items), restaurant_name |-> selected_restaurant,
     item_name |-> name, category |-> "Other", price |-> price_val,
     carbon_footprint |-> 0, source |-> "Bulk"]

\* Mutant of bulk_add: the first line whose price does not parse ends the loop
RECURSIVE bulk_add_stops_at_bad_line(_, _, _)
bulk_add_stops_at_bad_line(lines, selected_restaurant, out) ==
    IF lines = <<>> THEN out
    ELSE LET line == Head(lines)
             parts == split(line, ",")
             price_val == parse_float(strip(parts[2]))
         IN  IF ~has(line, ",") \/ Len(parts) < 2
             THEN bulk_add_stops_at_bad_line(Tail(lines), selected_restaurant,
                                             out)
             ELSE IF price_val.raised = "ValueError"
             THEN [out EXCEPT !.warnings = Append(@, line)]
             ELSE bulk_add_stops_at_bad_line(Tail(lines), selected_restaurant,
                      [out EXCEPT
                          !.menu_items =
                              Append(@, bulk_menu_item(@, selected_restaurant,
                                            strip(parts[1]), price_val.value)),
                          !.items_added = @ + 1])

\* The loop over the lines of the bulk text; out holds menu_items,
\* items_added and the warnings shown
RECURSIVE bulk_add(_, _, _)
bulk_add(lines, selected_restaurant, out) ==
    IF lines = <<>> THEN out
    ELSE LET line == Head(lines)
             parts == split(line, ",")
             price_val == parse_float(strip(parts[2]))
         IN  IF ~has(line, ",") \/ Len(parts) < 2
             THEN bulk_add(Tail(lines), selected_restaurant, out)
             ELSE IF price_val.raised = "ValueError"
             THEN bulk_add(Tail(lines), selected_restaurant,
                      [out EXCEPT !.warnings = Append(@, line)])
             ELSE bulk_add(Tail(lines), selected_restaurant,
                      [out EXCEPT
                          !.menu_items =
                              Append(@, bulk_menu_item(@, selected_restaurant,
                                            strip(parts[1]), price_val.value)),
                          !.items_added = @ + 1])

\* The body of `if submitted:` in add_menu_item
submitted_items(items, selected_restaurant, item_name, category, price, carbon_footprint, bulk_items) ==
    LET single ==
            IF item_name # <<>>
            THEN [menu_items |->
                      Append(items, manual_item(items, selected_restaurant,
                                 item_name, category, price, carbon_footprint)),
                  items_added |-> 1, warnings |-> <<>>]
            ELSE [menu_items |-> items, items_added |-> 0, warnings |-> <<>>]
    IN  IF bulk_items # <<>>
        THEN bulk_add(split(strip(bulk_items), "\n"), selected_restaurant,
                      single)
        ELSE single

\* What the user can put into the form of add_menu_item
ItemNameTexts == { <<>>, <<"P", "i", "z", "z", "a">> }
FormCategories == {"Main Course"}
FormPrices == {1299}
FormCarbon == {150}
BulkTexts ==
    { <<>>,
      <<"T", "e", "a">>,
      <<"S", "o", "u", "p", ",", " ", "a", "b", "c">>,
      <<"S", "o", "u", "p", ",", " ", "a", "b", "c", "\n",
        "T", "e", "a", ",", "3">> }

\* Mutant of dashboard_add_menu_item: the form is shown without a restaurant
\* and the item is filed under the default name
dashboard_add_menu_item_unguarded(selected_restaurant, item_name, category, price, carbon_footprint, bulk_items) ==
    LET state == initialize_session_state(session_state)
        restaurant_options ==
            {state["restaurants"][i].name :
                i \in 1..Len(state["restaurants"])}
        out == submitted_items(state["menu_items"],
                   IF restaurant_options = {} THEN "Demo Restaurant"
                   ELSE selected_restaurant,
                   item_name, category, price, carbon_footprint, bulk_items)
    IN  /\ run.selected = "menu"
        /\ restaurant_options # {} => selected_restaurant \in restaurant_options
        /\ Len(out.menu_items) <= MaxMenuItems
        /\ session_state' = [state EXCEPT !["menu_items"] = out.menu_items]
        /\ run' = [a_run("menu", state, "add_menu_item")
                      EXCEPT !.items_added = out.items_added,
                             !.warnings = out.warnings,
                             !.form = [item_name |-> item_name,
                                       bulk_items |-> bulk_items]]
        /\ UNCHANGED qr_menu_vars

\* add_menu_item() of the dashboard: the form is submitted.  Without a
\* restaurant the function returns before the form and nothing can be
\* submitted.
dashboard_add_menu_item(selected_restaurant, item_name, category, price, carbon_footprint, bulk_items) ==
    LET state == initialize_session_state(session_state)
        restaurant_options ==
            {state["restaurants"][i].name :
                i \in 1..Len(state["restaurants"])}
        out == submitted_items(state["menu_items"], selected_restaurant,
                   item_name, category, price, carbon_footprint, bulk_items)
    IN  /\ run.selected = "menu"
        /\ IF state["restaurants"] = <<>>
           THEN /\ session_state' = state
                /\ run' = a_run("menu", state, "add_menu_item")
           ELSE /\ selected_restaurant \in restaurant_options
                /\ Len(out.menu_items) <= MaxMenuItems
                /\ session_state' =
                       [state EXCEPT !["menu_items"] = out.menu_items]
                /\ run' = [a_run("menu", state, "add_menu_item")
                              EXCEPT !.items_added = out.items_added,
                                     !.warnings = out.warnings,
                                     !.form = [item_name |-> item_name,
                                               bulk_items |-> bulk_items]]
        /\ UNCHANGED qr_menu_vars

\* The texts typed into the search box of view_menu
SearchTerms == { <<>>, <<"P", "I", "Z">> }

\* view_menu: the items the three filters leave
filtered_items(items, restaurant_filter, category_filter, search_term) ==
    SelectSeq(items, LAMBDA item :
        /\ restaurant_filter # "All" => item.restaurant_name = restaurant_filter
        /\ category_filter # "All" => item.category = category_filter
        /\ search_term # <<>> =>
               contains(lower(item.item_name), lower(search_term)))

\* Mutant of delete_menu_item: every item with the clicked item's name goes
delete_menu_item_by_name(restaurant_filter, category_filter, search_term, i) ==
    LET state == initialize_session_state(session_state)
        items == state["menu_items"]
        filtered == filtered_items(items, restaurant_filter, category_filter,
                                   search_term)
    IN  /\ run.selected = "menu"
        /\ i \in 1..Len(filtered)
        /\ session_state' =
               [state EXCEPT !["menu_items"] =
                   SelectSeq(items, LAMBDA mi :
                       mi.item_name # filtered[i].item_name)]
        /\ run' = [a_run("menu", state, "delete_menu_item")
                      EXCEPT !.clicked = filtered[i].id]
        /\ UNCHANGED qr_menu_vars

\* view_menu(): the Delete button of the i-th item shown under the filters
delete_menu_item(restaurant_filter, category_filter, search_term, i) ==
    LET state == initialize_session_state(session_state)
        items == state["menu_items"]
        filtered == filtered_items(items, restaurant_filter, category_filter,
                                   search_term)
    IN  /\ run.selected = "menu"
        /\ i \in 1..Len(filtered)
        /\ session_state' =
               [state EXCEPT !["menu_items"] =
                   SelectSeq(items, LAMBDA mi : mi.id # filtered[i].id)]
        /\ run' = [a_run("menu", state, "delete_menu_item")
                      EXCEPT !.clicked = filtered[i].id]
        /\ UNCHANGED qr_menu_vars

\* The pages the three quick-action buttons of dashboard() name
QuickActions == {"restaurants", "menu", "marketing"}

\* dashboard(): a quick-action button is clicked; the handler sets
\* current_page and calls st.rerun(), and the run that follows routes again
quick_action(button) ==
    LET state == initialize_session_state(session_state)
        clicked ==
            [key \in DOMAIN state \cup {"current_page"} |->
                IF key = "current_page" THEN button ELSE state[key]]
    IN  /\ run.selected = "dashboard"
        /\ button \in QuickActions
        /\ session_state' = initialize_session_state(clicked)
        /\ run' = a_run("dashboard", clicked, "quick_action")
        /\ UNCHANGED qr_menu_vars

\* marketing_campaigns(): the form is submitted with the name typed
create_campaign(campaign_name) ==
    LET state == initialize_session_state(session_state)
        campaigns == state["marketing_campaigns"]
    IN  /\ run.selected = "marketing"
        /\ Len(campaigns) < MaxCampaigns
        /\ session_state' =
               IF campaign_name # ""
               THEN [state EXCEPT !["marketing_campaigns"] =
                        Append(campaigns, [id |-> uuid4(campaigns),
                                           name |-> campaign_name])]
               ELSE state
        /\ run' = a_run("marketing", state, "create_campaign")
        /\ UNCHANGED qr_menu_vars

\* feedback_management(): the form is submitted
submit_feedback(customer_name, restaurant) ==
    LET state == initialize_session_state(session_state)
        feedback == state["customer_feedback"]
        restaurant_options ==
            IF state["restaurants"] # <<>>
            THEN {state["restaurants"][i].name :
                     i \in 1..Len(state["restaurants"])}
            ELSE {"Demo Restaurant"}
    IN  /\ run.selected = "feedback"
        /\ Len(feedback) < MaxFeedback
        /\ restaurant \in restaurant_options
        /\ session_state' =
               [state EXCEPT !["customer_feedback"] =
                   Append(feedback,
                       [id |-> uuid4(feedback),
                        customer_name |-> IF customer_name # ""
                                          THEN customer_name ELSE "Anonymous",
                        restaurant |-> restaurant])]
        /\ run' = a_run("feedback", state, "submit_feedback")
        /\ UNCHANGED qr_menu_vars

(***************************************************************************)
(* Specification of the dashboard: a browser session from its first run     *)
(***************************************************************************)
InitDash ==
    /\ calculator = CarbonCalculator
    /\ threads = NoThreads
    /\ main = NotRunning
    /\ calls = NoCalls
    /\ session_state = NoSession
    /\ run = NoRun
    /\ dish_name = <<>>
    /\ carbon_data = NoCall
    /\ frame = <<>>
    /\ menu_items = <<>>
    /\ last = [op |-> "init"]
    /\ tie_up = [total \in {} |-> TRUE]

\* The pages whose functions write nothing unless a button is clicked
StaticPages == {"dashboard", "restaurants", "menu", "qr_codes"}

NextDash ==
    \/ \E selected_page \in StaticPages, seed \in Seeds :
           select_page(selected_page, seed)
    \/ \E name \in RestaurantNames : add_restaurant(name)
    \/ \E i \in 1..MaxRestaurants : delete_restaurant(i)
    \/ \E selected_restaurant \in RestaurantNames, item_name \in ItemNameTexts,
          category \in FormCategories, price \in FormPrices,
          carbon_footprint \in FormCarbon, bulk_items \in BulkTexts :
           dashboard_add_menu_item(selected_restaurant, item_name, category,
                                   price, carbon_footprint, bulk_items)
    \/ \E restaurant_filter \in RestaurantNames \cup {"All"},
          category_filter \in FormCategories \cup {"All", "Other"},
          search_term \in SearchTerms, i \in 1..MaxMenuItems :
           delete_menu_item(restaurant_filter, category_filter, search_term, i)
    \/ \E button \in QuickActions : quick_action(button)

SpecDash == InitDash /\ [][NextDash]_vars

(***************************************************************************)
(* Specification of a session around the sales page: at most MaxKept        *)
(* restaurants and menu items are entered, one item a form                  *)
(***************************************************************************)
MaxKept == 1

\* st.session_state.<key> in the next run
stored(key) == initialize_session_state(session_state)[key]

SalesPages == {"dashboard", "sales", "restaurants", "menu"}

NextSales ==
    \/ \E selected_page \in SalesPages, seed \in Seeds :
           select_page(selected_page, seed)
    \/ /\ Len(stored("restaurants")) < MaxKept
       /\ \E name \in RestaurantNames : add_restaurant(name)
    \/ \E i \in 1..MaxRestaurants : delete_restaurant(i)
    \/ /\ Len(stored("menu_items")) < MaxKept
       /\ \E selected_restaurant \in RestaurantNames,
             item_name \in ItemNameTexts \ {<<>>},
             category \in FormCategories, price \in FormPrices,
             carbon_footprint \in FormCarbon :
              dashboard_add_menu_item(selected_restaurant, item_name, category,
                                      price, carbon_footprint, <<>>)
    \/ \E i \in 1..MaxMenuItems : delete_menu_item("All", "All", <<>>, i)

SpecSales == InitDash /\ [][NextSales]_vars

(***************************************************************************)
(* Specification of a session that fills every collection a restaurant is   *)
(* shown with: restaurants come and go, the rest is only added              *)
(***************************************************************************)
DataPages == {"sales", "customers", "marketing", "restaurants", "menu"}
CampaignNames == {"", "Launch"}

NextData ==
    \/ \E selected_page \in DataPages, seed \in Seeds :
           select_page(selected_page, seed)
    \/ /\ Len(stored("restaurants")) < MaxKept
       /\ \E name \in RestaurantNames : add_restaurant(name)
    \/ \E i \in 1..MaxRestaurants : delete_restaurant(i)
    \/ /\ Len(stored("menu_items")) < MaxKept
       /\ \E selected_restaurant \in RestaurantNames,
             item_name \in ItemNameTexts \ {<<>>},
             category \in FormCategories, price \in FormPrices,
             carbon_footprint \in FormCarbon :
              dashboard_add_menu_item(selected_restaurant, item_name, category,
                                      price, carbon_footprint, <<>>)
    \/ \E campaign_name \in CampaignNames : create_campaign(campaign_name)

SpecData == InitDash /\ [][NextData]_vars

(***************************************************************************)
(* Specification of a session on the pages with forms only                  *)
(***************************************************************************)
FormPages == {"dashboard", "restaurants", "marketing", "feedback"}

NextForms ==
    \/ \E selected_page \in FormPages, seed \in Seeds :
           select_page(selected_page, seed)
    \/ \E name \in RestaurantNames : add_restaurant(name)
    \/ \E i \in 1..MaxRestaurants : delete_restaurant(i)
    \/ \E button \in QuickActions : quick_action(button)
    \/ \E campaign_name \in CampaignNames : create_campaign(campaign_name)
    \/ \E customer_name \in {"", "Ada"},
          restaurant \in RestaurantNames \cup {"Demo Restaurant"} :
           submit_feedback(customer_name, restaurant)

SpecForms == InitDash /\ [][NextForms]_vars


(***************************************************************************)
(* Claims about the dashboard                                               *)
(***************************************************************************)
\* The names of the restaurants in the session when the next run starts
restaurant_names ==
    {stored("restaurants")[i].name : i \in 1..Len(stored("restaurants"))}

\* C22: a menu item is added only while a restaurant exists.  In every step
\* the old menu items stay a prefix unless one is deleted; a step that makes
\* menu_items longer starts with at least one restaurant and every item it
\* appends carries the name of a restaurant of that moment; a submission
\* made with no restaurant leaves menu_items as it was.
C22_AddOnlyWithRestaurant ==
    [][LET before == stored("menu_items")
           after == session_state'["menu_items"]
       IN  /\ Len(after) > Len(before) =>
                  /\ stored("restaurants") # <<>>
                  /\ SubSeq(after, 1, Len(before)) = before
                  /\ \A k \in (Len(before) + 1)..Len(after) :
                         after[k].restaurant_name \in restaurant_names
           /\ (run'.event = "add_menu_item" /\ stored("restaurants") = <<>>)
                  => after = before]_vars

\* Two items were added in one submission and the restaurant they were
\* added under is in the session
C22_Witness ==
    /\ run.event = "add_menu_item"
    /\ run.items_added = 2
    /\ Len(session_state["menu_items"]) = 2
    /\ \A k \in 1..2 :
           session_state["menu_items"][k].restaurant_name \in restaurant_names


\* C23: a click on an item's Delete button in the menu view, under any
\* filter, removes from menu_items the one item whose id is the clicked id
\* and keeps the other items in their order.
C23_DeleteById ==
    [][run'.event = "delete_menu_item" =>
          LET before == stored("menu_items")
              after == session_state'["menu_items"]
          IN  \E k \in 1..Len(before) :
                  /\ before[k].id = run'.clicked
                  /\ \A j \in 1..Len(before) :
                         j # k => before[j].id # run'.clicked
                  /\ after = SubSeq(before, 1, k - 1)
                                 \o SubSeq(before, k + 1, Len(before))]_vars

\* The second item of the list was deleted and the first one is still there
C23_Witness ==
    /\ run.event = "delete_menu_item"
    /\ run.clicked = 2
    /\ Len(session_state["menu_items"]) = 1
    /\ session_state["menu_items"][1].id = 1


\* C24: a click on a restaurant's Delete button removes the record at the
\* clicked position from restaurants and changes nothing else in the
\* session: menu_items (the items of the deleted restaurant too), sales_data,
\* customers and marketing_campaigns are as they were.
C24_DeleteRestaurantOnly ==
    [][run'.event = "delete_restaurant" =>
          LET before == stored("restaurants")
              k == run'.clicked
          IN  /\ k \in 1..Len(before)
              /\ session_state'["restaurants"] =
                     SubSeq(before, 1, k - 1)
                         \o SubSeq(before, k + 1, Len(before))
              /\ \A key \in SessionKeys \ {"restaurants"} :
                     session_state'[key] = stored(key)]_vars

\* The restaurant was deleted; its menu item, the sales and the customers
\* generated under its name and a campaign are still in the session
C24_Witness ==
    /\ run.event = "delete_restaurant"
    /\ session_state["restaurants"] = <<>>
    /\ Len(session_state["menu_items"]) = 1
    /\ session_state["menu_items"][1].restaurant_name = "Roma"
    /\ session_state["sales_data"] # <<>>
    /\ session_state["sales_data"][1].restaurant_name = "Roma"
    /\ session_state["customers"] # <<>>
    /\ session_state["customers"][1].preferred_restaurant = "Roma"
    /\ session_state["marketing_campaigns"] # <<>>


\* The session keys the handler of an interaction writes
handler_writes(event) ==
    CASE event \in {"add_restaurant", "delete_restaurant"} -> {"restaurants"}
      [] event \in {"add_menu_item", "delete_menu_item"} -> {"menu_items"}
      [] event = "create_campaign" -> {"marketing_campaigns"}
      [] event = "submit_feedback" -> {"customer_feedback"}
      [] OTHER -> {}

\* C25: initialize_session_state sets a key only when it is absent.  On any
\* session state it keeps the value of every key present, gives the absent
\* keys their defaults, and a second call changes nothing; across every run
\* a key that holds data and that the clicked handler does not write keeps
\* its value.
C25_InitializeKeepsData ==
    [][LET state == initialize_session_state(session_state)
       IN  /\ DOMAIN state = DOMAIN session_state \cup SessionKeys
           /\ \A key \in DOMAIN session_state : state[key] = session_state[key]
           /\ \A key \in SessionKeys \ DOMAIN session_state :
                  state[key] = session_defaults[key]
           /\ initialize_session_state(state) = state
           /\ \A key \in DOMAIN session_state \cap SessionKeys :
                  (session_state[key] # <<>>
                       /\ key \notin handler_writes(run'.event))
                      => session_state'[key] = session_state[key]]_vars

\* A run with no click in a session that holds a restaurant, a campaign, a
\* feedback entry and a key of its own
C25_Witness ==
    /\ run.event = "select_page"
    /\ "current_page" \in DOMAIN session_state
    /\ session_state["restaurants"] # <<>>
    /\ session_state["marketing_campaigns"] # <<>>
    /\ session_state["customer_feedback"] # <<>>


\* The lines of a bulk text, those with a price that parses and those with a
\* comma and a price that does not
bulk_lines(bulk_items) ==
    IF bulk_items = <<>> THEN <<>> ELSE split(strip(bulk_items), "\n")
price_parses(line) ==
    has(line, ",") /\ parse_float(split(line, ",")[2]).raised = "None"
valid_lines(bulk_items) ==
    SelectSeq(bulk_lines(bulk_items), LAMBDA line : price_parses(line))
bad_lines(bulk_items) ==
    SelectSeq(bulk_lines(bulk_items),
              LAMBDA line : has(line, ",") /\ ~price_parses(line))

\* C26: in a submission of the menu form, each line with a comma whose price
\* does not parse gives one warning and is skipped; the single item and all
\* valid lines, before and after it, are appended in order; items_added is
\* the number of items appended; when it is 0 menu_items is unchanged.
C26_BadLineSkipped ==
    [][(run'.event = "add_menu_item" /\ stored("restaurants") # <<>>) =>
          LET before == stored("menu_items")
              after == session_state'["menu_items"]
              form == run'.form
              single == IF form.item_name # <<>> THEN 1 ELSE 0
              good == valid_lines(form.bulk_items)
          IN  /\ run'.warnings = bad_lines(form.bulk_items)
              /\ run'.items_added = single + Len(good)
              /\ Len(after) = Len(before) + run'.items_added
              /\ SubSeq(after, 1, Len(before)) = before
              /\ single = 1 =>
                     /\ after[Len(before) + 1].item_name = form.item_name
                     /\ after[Len(before) + 1].source = "Manual"
              /\ \A j \in 1..Len(good) :
                     /\ after[Len(before) + single + j].item_name =
                            strip(split(good[j], ",")[1])
                     /\ after[Len(before) + single + j].source = "Bulk"
              /\ run'.items_added = 0 => after = before]_vars

\* A submission with a single item, a line with a bad price and a valid line
\* after it: one warning, two items added
C26_Witness ==
    /\ run.event = "add_menu_item"
    /\ run.form.item_name # <<>>
    /\ Len(run.warnings) = 1
    /\ run.items_added = 2
    /\ Len(session_state["menu_items"]) = 2
    /\ session_state["menu_items"][2].source = "Bulk"


\* The sales dated day days ago
sales_of_day(sales, day) == {i \in 1..Len(sales) : sales[i].date = day}

\* 30 days with 5 to 25 orders each, quantity 1 to 3, amount = price * quantity
sample_shaped(sales) ==
    /\ \A i \in 1..Len(sales) :
           /\ sales[i].date \in 0..29
           /\ sales[i].quantity \in 1..3
           /\ sales[i].amount = sales[i].price * sales[i].quantity
    /\ \A day \in 0..29 : Cardinality(sales_of_day(sales, day)) \in 5..25

\* C27: sample sales are generated only when sales_data is empty.  A step
\* that starts with sales in the session leaves sales_data as it is; a step
\* that changes sales_data is a run of the sales page, starts with no sales
\* and ends with 30 days of 5 to 25 sales each, quantity 1 to 3 and amount =
\* price * quantity.
C27_SalesGeneratedOnce ==
    [][LET before == stored("sales_data")
           after == session_state'["sales_data"]
       IN  /\ before # <<>> => after = before
           /\ after # before =>
                  /\ run'.page = "sales"
                  /\ sample_shaped(after)]_vars

\* Sales were generated from the menu of a restaurant; since then the item
\* and the restaurant were deleted and the sales are still those
C27_Witness ==
    /\ run.event \in {"delete_menu_item", "delete_restaurant"}
    /\ session_state["menu_items"] = <<>>
    /\ session_state["restaurants"] = <<>>
    /\ session_state["sales_data"] # <<>>
    /\ session_state["sales_data"][1].restaurant_name = "Roma"
    /\ session_state["sales_data"][1].item_name = <<"P", "i", "z", "z", "a">>


\* C28: after a click on a quick-action button the next run of main renders
\* the page the button stored in current_page.
C28_QuickActionNavigates ==
    run.event = "quick_action" => run.page = session_state["current_page"]

=============================================================================
